---- MODULE Spec2Model ----
(***************************************************************************)
(* A model of cascade's Session (src/src/cascade/model/session.py): the    *)
(* protocol by which a Session writes a model and data to a Dismod-AT db   *)
(* file, runs the dmdismod executable on it one command at a time and      *)
(* classifies each run from the exit status, the captured output and the   *)
(* log table of the file.                                                  *)
(*                                                                         *)
(* One public method call of Session is in progress at a time (call). The  *)
(* body of _run_dismod is followed statement by statement (pc); the        *)
(* statements of a caller between two _run_dismod calls are one action.    *)
(***************************************************************************)
EXTENDS Integers, Sequences, FiniteSets, TLC

\* ------------------------------------------------------------- bounds
\* Option values are 1..MaxOptVal; 0 stands for "key absent".
MaxOptVal == 1
\* simulate_count is drawn from 1..MaxCount.
MaxCount == 1
\* simulate_count where simulate and sample are looked at on their own.
MaxSimCount == 2
\* Option values where set_option is looked at on its own.
MaxOptSet == 2
\* The parameters of a prior are drawn from -MaxPriorVal..MaxPriorVal, the
\* infinities and nan.
MaxPriorVal == 1
\* A grid has the ages 1..n and the times 1..m with n, m up to MaxBreaks,
\* and gets up to MaxWrites assignments.
MaxBreaks == 2
MaxWrites == 2

\* ---------------------------------------------------------- constants
OptKeys == {"k1", "k2"}
NoOptions == [k \in OptKeys |-> 0]

\* What a Model argument carries that Session reads: model.random_effect
\* (truthy or not) and model.scale_set_by_user.
Models == [kind : {"model"}, re : BOOLEAN, scaleUser : BOOLEAN]

\* An initial guess / fit var argument: None, or a Var that is aligned with
\* the model or is not.
Guesses == {"None", "aligned", "misaligned"}

\* The var argument of predict: every entry complete, or some entry not.
PredictVars == {"complete", "incomplete"}

oom_sentinel == "std:bad_alloc"
max_iter_sentinel == "Maximum Number of Iterations Exceeded"
Sentinels == {oom_sentinel, max_iter_sentinel}
\* The text FitResult.success looks for.
optimal_marker == "Optimal Solution Found"
\* What the captured stdout of a command is told apart by: the texts that
\* are looked for in it. Ipopt's closing line comes with fit only.
Stdouts(command) ==
    SUBSET (IF command = "fit" THEN Sentinels \cup {optimal_marker}
            ELSE Sentinels)

\* str(c) for the integer tokens of a command.
Str(n) ==
    CASE n = 0 -> "0" [] n = 1 -> "1" [] n = 2 -> "2" [] n = 3 -> "3"
      [] n = 4 -> "4" [] OTHER -> "n"

\* The names of the commands Session sends (command[0]).
Commands == {"init", "fit", "predict", "simulate", "sample"}

\* COMMAND_IO[command].output, restricted to the tables whose content this
\* model tracks: init derives start_var and scale_var, fit writes fit_var.
COMMAND_IO ==
    [c \in Commands |->
        CASE c = "init" -> {"start", "scale"}
          [] c = "fit" -> {"fit"}
          [] OTHER -> {}]

\* The tables whose content this model tracks both in memory and in the
\* db file: the start, scale and truth vars (where each came from) and
\* fit_var (how recent it is). The option table is tracked as ObjectWrapper
\* holds it (optTable); of the model, data and avgint tables only the
\* writes are tracked (pending, events).
Tables == {"start", "scale", "truth", "fit"}

\* What a table holds: "none" if nothing; for a var where it came from
\* ("engine", "model", "guess", or the fit var it was set from); for fit_var
\* "new" if the run of the _run_dismod call in progress (or last made)
\* wrote it, "old" if an earlier run did.
EmptyStore ==
    [start |-> "none", scale |-> "none", truth |-> "none", fit |-> "none"]

\* The columns of a data table that Session looks at, and one of those it
\* does not ("mean").
Columns ==
    {"age", "time", "age_lower", "age_upper", "time_lower", "time_upper",
     "name", "hold_out", "nu", "eta", "mean"}

\* A data table, column by column: "absent" if the table lacks the column,
\* else what the column holds: "given" (the caller's values; for a point
\* age or time "point"), "null" (the caller's values, some of them null),
\* or what Session fills in ("point", "index", "0", "nan").
NoTable == [c \in Columns |-> "absent"]
GivenTables ==
    {t \in [Columns -> {"absent", "given", "point", "null"}] :
        \A c \in Columns :
            /\ t[c] = "point" => c \in {"age", "time"}
            /\ t[c] = "given" => c \notin {"age", "time"}
            /\ t[c] = "null" => c = "name"}

\* The data a caller of fit or simulate passes: point ages, and a name
\* column that is missing, complete, or has nulls.
DataArgs ==
    {[NoTable EXCEPT !.age = "point", !.name = n] :
        n \in {"absent", "given", "null"}}
NamedData == [NoTable EXCEPT !.age = "point", !.name = "given"]
NullNameData == [NoTable EXCEPT !.age = "point", !.name = "null"]

\* An entry of the trace of the public call in progress.
Ev(e, c) == [e |-> e, c |-> c]

VARIABLES
    options,    \* Session._options
    bound,      \* self._objects.dismod_file is set
    dbOpen,     \* the db file's engine is open in this process
    optTable,   \* the option table as ObjectWrapper holds it in memory
    mem,        \* the tables as ObjectWrapper holds them in memory
    pending,    \* the tables written in memory and not yet flushed
    file,       \* the tables of the db file on disk
    log,        \* the last message of the log table dmdismod left, <<>> if
                \* the table is empty; kept only until the call ends
    call,       \* the public call in progress, or Idle
    pc,         \* the position in _run_dismod, "none" outside it
    cmd,        \* str_command of the _run_dismod call in progress
    proc,       \* (return_code, stdout, stderr) of the last run
    events,     \* trace of the public call in progress (or last made)
    ret,        \* what the last public call returned
    err,        \* what the last public call raised
    simResults, \* counts of the SimulateResults the caller holds
    initialized,\* init returned normally since model/data/options changed
    keep,       \* cmd, proc and log are kept when the public call ends
                \* (for the record of how the run was classified)
    args,       \* under keep: the entry point, model.random_effect and
                \* data of the fit or simulate call in progress (or last
                \* made), the data as given and as normalized
    norm,       \* a data table under _amend_data_input: as given, after
                \* one application and after two
    seen,       \* under keep: the option table as the last init command
                \* that was started found it
    pri,        \* two priors, as constructed, and how they compare
    atg,        \* an AgeTimeGrid and the outcome of the last operation on it
    res,        \* the FitResult or SimulateResult the caller holds and the
                \* outcome of the last read of it
    mdl,        \* the Model last passed to setup_model_for_fit, as that
                \* call left it
    cov         \* a CovariateColumn and the outcome of the last call on it

vars == <<options, bound, dbOpen, optTable, mem, pending, file, log, call,
          pc, cmd, proc, events, ret, err, simResults, initialized,
          keep, args, norm, seen, pri, atg, res, mdl, cov>>

\* A public call: the method, and the arguments it still reads.
Call(op, level, scaleUser, guess, count) ==
    [op |-> op, level |-> level, scaleUser |-> scaleUser, guess |-> guess,
     count |-> count]
Idle == Call("idle", "", FALSE, "None", 0)
NoProc == [rc |-> 0, stdout |-> {}, stderr |-> {}]
\* A return value: kind tells the type, the other fields what it is bound to.
Result(kind, fit, out, count) ==
    [kind |-> kind, fit |-> fit, out |-> out, count |-> count]
NoRet == Result("none", "none", NoProc, 0)
\* An exception: its type (kind) and what its message names.
Error(kind, what) == [kind |-> kind, what |-> what]
NoErr == Error("none", "")

\* The caller's dealings with result objects: whether results are read at
\* all (on), the result object in the caller's hands (held), the property
\* read of it last, what the read returned and the exception it raised.
Res(on, held, prop, value, raised) ==
    [on |-> on, held |-> held, prop |-> prop, value |-> value,
     raised |-> raised]
NoRes == Res(FALSE, NoRet, "", "none", NoErr)
\* A Model in the caller's hands: whether the model is watched at all (on),
\* model.scale_set_by_user (user), and what model._scale holds: "before"
\* (what it held before the call), "model" (the scale the user set) or
\* what the store's scale var held.
Mdl(on, user, scale) == [on |-> on, user |-> user, scale |-> scale]

\* What the record of a run tells apart of the captured stdout and stderr:
\* the texts Session has looked for in them or, where results are read, the
\* text a FitResult will look for in its stdout.
Recorded(so) == IF res.on THEN so \cap {optimal_marker} ELSE so \cap Sentinels

\* The record of a fit or simulate call: its entry point, model.random_effect,
\* the data passed and the data after _amend_data_input.
Args(entry, re, given, data) ==
    [entry |-> entry, re |-> re, given |-> given, data |-> data]
NoArgs == Args("", FALSE, NoTable, NoTable)
\* A table on its way through _amend_data_input.
Norm(stage, given, once, twice) ==
    [stage |-> stage, given |-> given, once |-> once, twice |-> twice]
NoNorm == Norm("none", NoTable, NoTable, NoTable)

\* The numbers a prior is made of: floats, of which the model keeps the
\* integers up to MaxPriorVal either way, the two infinities and nan.
NegInf == 0 - (MaxPriorVal + 1)
PosInf == MaxPriorVal + 1
NaN == MaxPriorVal + 2
Floats == (NegInf..PosInf) \cup {NaN}
\* An attribute the constructor of the kind does not set.
Unset == MaxPriorVal + 3

\* The classes of priors.py, by their density.
Kinds ==
    {"uniform", "gaussian", "laplace", "students", "log_gaussian",
     "log_laplace", "log_students"}

\* A prior object after its constructor has run: raised is the message of
\* the ValueError that left it, "" if none did.
PriorObj(kind, name, lower, mean, upper, std, nu, eta, raised) ==
    [kind |-> kind, name |-> name, lower |-> lower, mean |-> mean,
     upper |-> upper, std |-> std, nu |-> nu, eta |-> eta, raised |-> raised]
NoPrior ==
    PriorObj("none", "None", Unset, Unset, Unset, Unset, Unset, Unset, "")

\* Two priors and the outcome of `p == q` and `hash(p) == hash(q)`.
Pri(p, q, eq, hash) == [p |-> p, q |-> q, eq |-> eq, hash |-> hash]
NoPri == Pri(NoPrior, NoPrior, "none", "none")

\* A CovariateColumn: _name (a string or not, and its text), _reference
\* and _max_difference (Unset for None), and the message of the error the
\* last call on it raised, "" if none.
Name(isStr, text) == [isStr |-> isStr, text |-> text]
Column(name, reference, max_difference, raised) ==
    [made |-> TRUE, name |-> name, reference |-> reference,
     max_difference |-> max_difference, raised |-> raised]
NoCov == [Column(Name(FALSE, "None"), Unset, Unset, "") EXCEPT !.made = FALSE]
\* The arguments the name is set with: two names, the empty string, a
\* number and None.
NameArgs ==
    {Name(TRUE, "x"), Name(TRUE, "y"), Name(TRUE, ""), Name(FALSE, "7"),
     Name(FALSE, "None")}
\* An argument float() cannot convert (a text that is no number), and the
\* arguments reference and max_difference are set with.
NotANumber == MaxPriorVal + 4
NumberArgs == Floats \cup {Unset, NotANumber}

\* An AgeTimeGrid: the breakpoints, the column names as declared, the
\* columns of the primary store in the order the store has them, its rows
\* (age, time, and the values in the order of the store's columns), the
\* mulstd rows, the number of assignments made and what the last one raised.
Grid(ages, times, columns, order, rows, mulstd, writes, raised) ==
    [made |-> TRUE, ages |-> ages, times |-> times, columns |-> columns,
     order |-> order, rows |-> rows, mulstd |-> mulstd, writes |-> writes,
     err |-> raised]
\* No AgeTimeGrid yet.
NoGrid == [Grid({}, {}, <<>>, <<>>, <<>>, <<>>, 0, "") EXCEPT !.made = FALSE]

\* The column lists a grid is declared with, the unset marker of a cell
\* and an open bound of a slice (None).
ColumnLists == {<<"var_id">>, <<"height", "weight">>}
UnsetCell == 0
Open == 0 - 1
\* The slices lo:hi an axis is selected with: everything, up to
\* breakpoint MaxBreaks, from breakpoint MaxBreaks on, the first breakpoint
\* alone, from below all breakpoints to above them, and two slices that no
\* breakpoint is in, below and above.
Slices ==
    {<<Open, Open>>, <<Open, MaxBreaks>>, <<MaxBreaks, Open>>, <<1, 1>>,
     <<0, MaxBreaks + 1>>, <<0, 0>>, <<MaxBreaks + 1, Open>>}

InitSession ==
    /\ options = NoOptions
    /\ bound = FALSE
    /\ dbOpen = FALSE
    /\ optTable = NoOptions
    /\ mem = EmptyStore
    /\ pending = {}
    /\ file = EmptyStore
    /\ log = <<>>
    /\ call = Idle
    /\ pc = "none"
    /\ cmd = <<>>
    /\ proc = NoProc
    /\ events = <<>>
    /\ ret = NoRet
    /\ err = NoErr
    /\ simResults = {}
    /\ initialized = FALSE
    /\ args = NoArgs
    /\ seen = NoOptions

\* A new Session; what its runs of dmdismod returned is not kept.
Init ==
    /\ InitSession
    /\ keep = FALSE
    /\ norm = NoNorm /\ pri = NoPri /\ atg = NoGrid /\ res = NoRes
    /\ mdl = Mdl(FALSE, FALSE, "before") /\ cov = NoCov

\* A new Session under an observer that keeps, after each public call, the
\* command last run, what run_with_logging returned and the log's tail.
InitObs ==
    /\ InitSession
    /\ keep = TRUE
    /\ norm = NoNorm /\ pri = NoPri /\ atg = NoGrid /\ res = NoRes
    /\ mdl = Mdl(FALSE, FALSE, "before") /\ cov = NoCov

\* ------------------------------------------------------------ helpers

\* pat is a run of consecutive tokens of msg (Python's `pat in msg`, on
\* messages cut into words).
Contains(msg, pat) ==
    \E i \in 0..(Len(msg) - Len(pat)) : SubSeq(msg, i + 1, i + Len(pat)) = pat

\* The test of _fit and simulate turned round: only None is checked.
FalsyGuess(guess) == guess = "None"

\* Python's truth value of an initial_guess / fit_var argument: None is
\* false, a Var (DismodGroups) object is true.
Truthy(guess) == guess # "None"

\* model.check_alignment(guess): the misalignment found, empty if none.
check_alignment(model, guess) ==
    IF guess = "misaligned" THEN {"rate"} ELSE {}

\* Var.check(name): passes on a complete entry, raises on an incomplete one.
one_var_check(var) == var = "complete"

\* Session.predict without its first statement.
check_vars_skipped(var) == TRUE

\* Session._check_vars(var): one_var.check is called on every entry.
check_vars(var) == one_var_check(var)

\* _check_dismod_command looking for the maximum-iterations marker before
\* the out-of-memory marker.
check_max_iter_first(command, lg, stdout, stderr) ==
    IF Len(lg) = 0 \/ ~Contains(lg, <<"end", command>>)
    THEN IF max_iter_sentinel \in stdout \/ max_iter_sentinel \in stderr
         THEN "warn"
         ELSE IF oom_sentinel \in stdout \/ oom_sentinel \in stderr
              THEN "oom"
              ELSE "failed"
    ELSE "ok"

\* _check_dismod_command without the branch for the maximum-iterations
\* marker: every run whose log does not end well is an error.
check_max_iter_fatal(command, lg, stdout, stderr) ==
    IF Len(lg) = 0 \/ ~Contains(lg, <<"end", command>>)
    THEN IF oom_sentinel \in stdout \/ oom_sentinel \in stderr
         THEN "oom"
         ELSE "failed"
    ELSE "ok"

\* _check_dismod_command scanning the output whatever the log says.
check_markers_always(command, lg, stdout, stderr) ==
    IF oom_sentinel \in stdout \/ oom_sentinel \in stderr
    THEN "oom"
    ELSE IF max_iter_sentinel \in stdout \/ max_iter_sentinel \in stderr
         THEN "warn"
         ELSE IF Len(lg) = 0 \/ ~Contains(lg, <<"end", command>>)
              THEN "failed"
              ELSE "ok"

\* _check_dismod_command taking an empty log for a good one.
check_empty_log_ok(command, lg, stdout, stderr) ==
    IF Len(lg) # 0 /\ ~Contains(lg, <<"end", command>>)
    THEN IF oom_sentinel \in stdout \/ oom_sentinel \in stderr
         THEN "oom"
         ELSE IF max_iter_sentinel \in stdout \/ max_iter_sentinel \in stderr
              THEN "warn"
              ELSE "failed"
    ELSE "ok"

\* _check_dismod_command asking for the last message to be the line itself.
check_whole_message(command, lg, stdout, stderr) ==
    IF lg # <<"end", command>>
    THEN IF oom_sentinel \in stdout \/ oom_sentinel \in stderr
         THEN "oom"
         ELSE IF max_iter_sentinel \in stdout \/ max_iter_sentinel \in stderr
              THEN "warn"
              ELSE "failed"
    ELSE "ok"

\* The classification _check_dismod_command makes: "ok" (falls through
\* silently), "warn" (MATHLOG.warning), or the DismodATException raised.
check_dismod_command(command, lg, stdout, stderr) ==
    IF Len(lg) = 0 \/ ~Contains(lg, <<"end", command>>)
    THEN IF oom_sentinel \in stdout \/ oom_sentinel \in stderr
         THEN "oom"
         ELSE IF max_iter_sentinel \in stdout \/ max_iter_sentinel \in stderr
              THEN "warn"
              ELSE "failed"
    ELSE "ok"

\* The point column an interval column is made from, "" if none.
PointOf(c) ==
    CASE c \in {"age_lower", "age_upper"} -> "age"
      [] c \in {"time_lower", "time_upper"} -> "time"
      [] OTHER -> ""

\* _point_age_time_to_interval without its drop of the point columns.
point_columns_kept(data) ==
    [c \in Columns |->
        IF PointOf(c) # "" /\ data[c] = "absent" /\ data[PointOf(c)] # "absent"
        THEN data[PointOf(c)]
        ELSE data[c]]

\* Session._point_age_time_to_interval: an interval column that is missing
\* is copied from the point column, if there is one; the point columns are
\* dropped.
point_age_time_to_interval(data) ==
    [c \in Columns |->
        IF c \in {"age", "time"} THEN "absent"
        ELSE IF PointOf(c) # "" /\ data[c] = "absent"
                  /\ data[PointOf(c)] # "absent"
             THEN data[PointOf(c)]
             ELSE data[c]]

\* _amend_data_input taking any name column as it comes.
names_never_null(data) == FALSE

\* _amend_data_input raises: there is a name column and it has nulls.
null_names(data) == point_age_time_to_interval(data)["name"] = "null"

\* _amend_data_input filling nu and eta with 0 as it does hold_out.
amend_zero_fill(data) ==
    LET d == point_age_time_to_interval(data)
    IN  [c \in Columns |->
            IF d[c] # "absent" THEN d[c]
            ELSE CASE c = "name" -> "index"
                   [] c \in {"hold_out", "nu", "eta"} -> "0"
                   [] OTHER -> "absent"]

\* What Session._amend_data_input returns when it does not raise.
amend_data_input(data) ==
    LET d == point_age_time_to_interval(data)
    IN  [c \in Columns |->
            IF d[c] # "absent" THEN d[c]
            ELSE CASE c = "name" -> "index"
                   [] c = "hold_out" -> "0"
                   [] c \in {"nu", "eta"} -> "nan"
                   [] OTHER -> "absent"]

\* Every entry point choosing the level as Session.fit does.
FitLevelByModel(entry, model) == IF model.re THEN "both" ELSE "fixed"

\* The level Session.fit / fit_fixed / fit_random pass to _fit.
FitLevel(entry, model) ==
    CASE entry = "fit" -> IF model.re THEN "both" ELSE "fixed"
      [] entry = "fit_fixed" -> "fixed"
      [] entry = "fit_random" -> "random"

\* ObjectWrapper.close_db_while_running, a context manager: entering it
\* closes the db file's engine, leaving it, by whatever way, opens it again.
close_db_enter(open) == FALSE
close_db_exit(open) == TRUE

\* ObjectWrapper.flush: the pending tables are written to the file.
flush(m, f, p) == [t \in Tables |-> IF t \in p THEN m[t] ELSE f[t]]

\* ObjectWrapper.refresh(tables): the named tables are read from the file.
refresh(m, f, ts) == [t \in Tables |-> IF t \in ts THEN f[t] ELSE m[t]]

\* A new _run_dismod call: what the previous run wrote is no longer "new".
Aged(s) == [s EXCEPT !.fit = IF @ = "new" THEN "old" ELSE @]

\* The locals of _run_dismod once the public call has ended: command is
\* str_command, p what run_with_logging returned, lg the log's tail.
Locals(command, p, lg) ==
    /\ cmd' = IF keep THEN command ELSE <<>>
    /\ proc' = IF keep THEN p ELSE NoProc
    /\ log' = IF keep THEN lg ELSE <<>>

\* An exception leaves the public call: nothing is returned.
Raise(e) ==
    /\ call' = Idle
    /\ pc' = "none"
    /\ ret' = NoRet
    /\ err' = e

\* The public call returns r.
Return(r) ==
    /\ call' = Idle
    /\ pc' = "none"
    /\ ret' = r
    /\ err' = NoErr
    /\ Locals(cmd, proc, log)

\* self._run_dismod(command) is entered.
EnterRun(command) ==
    /\ pc' = "flush"
    /\ log' = <<>>
    /\ cmd' = command
    /\ proc' = NoProc

\* `self._objects.model = model`: ObjectWrapper starts a new db file, which
\* overwrites the one at filename, and writes the model into it;
\* `self._objects.set_option(**self._options)`; then the table named by
\* third (data or avgint) is written.
SetupWrites(third) ==
    /\ optTable' = options
    /\ mem' = EmptyStore
    /\ file' = EmptyStore
    /\ pending' = {"model", "option", third}
    /\ bound' = TRUE
    /\ dbOpen' = TRUE
    /\ initialized' = FALSE
    /\ events' = <<Ev("write", "model"), Ev("write", "option"),
                   Ev("write", third)>>

\* Python's <= and < on floats: no comparison with nan is true.
Le(a, b) == a # NaN /\ b # NaN /\ a <= b
Lt(a, b) == a # NaN /\ b # NaN /\ a < b

\* priors._validate_bounds, _validate_standard_deviation, _validate_nu:
\* the message of the ValueError raised, "" if none is.
validate_bounds(lower, mean, upper) ==
    IF ~(Le(lower, mean) /\ Le(mean, upper)) THEN "Bounds are inconsistent"
    ELSE ""
validate_standard_deviation(standard_deviation) ==
    IF Lt(standard_deviation, 0) THEN "Standard deviation must be positive"
    ELSE ""
validate_nu(nu) == IF Lt(nu, 0) THEN "Nu must be positive" ELSE ""

\* The parameters the constructor of a kind takes besides mean, lower,
\* upper and name.
HasStd(kind) == kind # "uniform"
HasNu(kind) == kind \in {"students", "log_students"}
HasEta(kind) == kind \in {"log_gaussian", "log_laplace", "log_students"}

\* The __init__ of the class of the kind: the validations in the order of
\* the code, then the attributes. If one raises, the record keeps the
\* arguments of the call and the message.
PriorInit(kind, name, lower, mean, upper, std, nu, eta) ==
    LET b == validate_bounds(lower, mean, upper)
        s == IF HasStd(kind) THEN validate_standard_deviation(std) ELSE ""
        n == IF HasNu(kind) THEN validate_nu(nu) ELSE ""
        raised == IF b # "" THEN b ELSE IF s # "" THEN s ELSE n
    IN  PriorObj(kind, name, lower, mean, upper,
                 IF HasStd(kind) THEN std ELSE Unset,
                 IF HasNu(kind) THEN nu ELSE Unset,
                 IF HasEta(kind) THEN eta ELSE Unset, raised)

\* A prior that was constructed.
Made(p) == p.kind # "none" /\ p.raised = ""

\* parameters() as the class of the prior defines it: every class
\* overrides _Prior.parameters with a dict of its own attributes.
ParamKeys(kind) ==
    {"lower", "upper", "mean"}
      \cup (IF HasStd(kind) THEN {"std"} ELSE {})
      \cup (IF HasNu(kind) THEN {"nu"} ELSE {})
      \cup (IF HasEta(kind) THEN {"eta"} ELSE {})
parameters(p) == [k \in ParamKeys(p.kind) |-> p[k]]

\* _Prior.__eq__ on two priors, and whether _Prior.__hash__ gives the two
\* the same value: the hash of the frozenset of the items of parameters().
prior_eq(p, q) == p.name = q.name /\ parameters(p) = parameters(q)
Items(p) == {<<k, parameters(p)[k]>> : k \in ParamKeys(p.kind)}
prior_hash_eq(p, q) == Items(p) = Items(q)

\* A Python bool, printed.
Bool(b) == IF b THEN "True" ELSE "False"

\* s backwards.
Reverse(s) == [i \in 1..Len(s) |-> s[Len(s) + 1 - i]]

\* The rows AgeTimeGrid starts with: squares every age with itself.
ProductSquare(n, m, width) ==
    [i \in 1..(n * n) |->
        [age |-> ((i - 1) \div n) + 1, time |-> ((i - 1) % n) + 1,
         vals |-> [k \in 1..width |-> UnsetCell]]]

\* The rows AgeTimeGrid starts with: the product of ages 1..n and times
\* 1..m, every cell unset.
Product(n, m, width) ==
    [i \in 1..(n * m) |->
        [age |-> ((i - 1) \div m) + 1, time |-> ((i - 1) % m) + 1,
         vals |-> [k \in 1..width |-> UnsetCell]]]

\* The three rows of the mulstd table, one per kind of prior.
Mulstd == <<"value", "dage", "dtime">>

\* Where the store has column c.
ColIndex(order, c) == CHOOSE j \in DOMAIN order : order[j] = c

\* `grid[a, t].c` for a breakpoint pair: the value of column c in the row
\* of that age and time.
Get(g, a, t, c) ==
    LET i == CHOOSE i \in DOMAIN g.rows :
                 g.rows[i].age = a /\ g.rows[i].time = t
    IN  g.rows[i].vals[ColIndex(g.order, c)]

\* A slice bound that stops short of its upper end.
InRangeHalfOpen(x, lo, hi) == (lo = Open \/ lo <= x) /\ (hi = Open \/ x < hi)

\* x is within the slice lo:hi, both ends counting, an open end not.
InRange(x, lo, hi) == (lo = Open \/ lo <= x) /\ (hi = Open \/ x <= hi)

\* The breakpoints of one axis that a slice selects.
Selected(points, lo, hi) == {x \in points : InRange(x, lo, hi)}

\* A point assignment that goes by the age alone.
PointByAge(a, t) == <<a, a, Open, Open>>

\* `grid[a, t]` as a selection: the slice a:a, t:t.
Point(a, t) == <<a, a, t, t>>

\* An assignment that lets a selection of no row pass.
NoRangeError(g, sel) == FALSE

\* The assignment raises a range error: one of the axes has no breakpoint
\* in the selection.
RangeError(g, sel) ==
    \/ Selected(g.ages, sel[1], sel[2]) = {}
    \/ Selected(g.times, sel[3], sel[4]) = {}

\* The value of the w-th assignment, as a sequence over the declared
\* columns: a scalar goes to every column, a sequence gives each column
\* its own element, a sequence of another length ("short") fits none.
Value(g, kind, w) ==
    CASE kind = "scalar" -> [k \in 1..Len(g.columns) |-> 10 * w]
      [] kind = "sequence" -> [k \in 1..Len(g.columns) |-> 10 * w + k]
      [] OTHER -> [k \in 1..(Len(g.columns) + 1) |-> 10 * w + k]
ValueKinds == {"scalar", "sequence", "short"}
WholeValues == {"scalar", "sequence"}

\* The assignment raises a shape error.
ShapeError(g, value) == Len(value) # Len(g.columns)

\* An assignment that puts the k-th element into the k-th column of the
\* store, whatever its name.
AssignByPosition(g, sel, value) ==
    [i \in DOMAIN g.rows |->
        IF /\ InRange(g.rows[i].age, sel[1], sel[2])
           /\ InRange(g.rows[i].time, sel[3], sel[4])
        THEN [g.rows[i] EXCEPT !.vals = value]
        ELSE g.rows[i]]

\* The rows after `grid[sel] = value`: in every selected row the column
\* declared k-th gets the k-th element.
Assign(g, sel, value) ==
    [i \in DOMAIN g.rows |->
        IF /\ InRange(g.rows[i].age, sel[1], sel[2])
           /\ InRange(g.rows[i].time, sel[3], sel[4])
        THEN [g.rows[i] EXCEPT
                !.vals = [j \in DOMAIN g.order |->
                             value[ColIndex(g.columns, g.order[j])]]]
        ELSE g.rows[i]]

\* The store with its columns in the order `order`.
Reproject(g, order) ==
    [i \in DOMAIN g.rows |->
        [g.rows[i] EXCEPT
           !.vals = [j \in DOMAIN order |->
                        g.rows[i].vals[ColIndex(g.order, order[j])]]]]

\* ------------------------------------------------------ public calls

\* Session.fit, fit_fixed, fit_random, up to the first _run_dismod.
Fit(entry, model, data, guess) ==
    /\ call.op = "idle"
    /\ IF Truthy(guess) /\ check_alignment(model, guess) # {}
       THEN /\ Raise(Error("misaligned", "initial guess"))
            /\ Locals(<<>>, NoProc, <<>>)
            /\ events' = <<>>
            /\ args' = NoArgs
            /\ UNCHANGED <<options, optTable, bound, dbOpen, mem, pending,
                           file, simResults, initialized, keep, norm, seen,
                           pri, atg, res,
                   mdl, cov>>
       ELSE IF null_names(data)
       THEN /\ Raise(Error("RuntimeError", "data names"))
            /\ Locals(<<>>, NoProc, <<>>)
            /\ events' = <<>>
            /\ args' = NoArgs
            /\ UNCHANGED <<options, optTable, bound, dbOpen, mem, pending,
                           file, simResults, initialized, keep, norm, seen,
                           pri, atg, res,
                   mdl, cov>>
       ELSE /\ SetupWrites("data")
            /\ call' = Call("fit", FitLevel(entry, model), model.scaleUser,
                            guess, 0)
            /\ args' = IF keep
                       THEN Args(entry, model.re, data,
                                 amend_data_input(data))
                       ELSE NoArgs
            /\ EnterRun(<<"init">>)
            /\ ret' = NoRet
            /\ err' = NoErr
            /\ UNCHANGED <<options, simResults, keep, norm, seen, pri, atg, res,
                   mdl, cov>>

\* Session.setup_model_for_fit called directly, up to its _run_dismod.
SetupModelForFit(model, guess) ==
    /\ call.op = "idle"
    /\ SetupWrites("data")
    /\ call' = Call("setup", "", model.scaleUser, guess, 0)
    /\ args' = NoArgs
    /\ EnterRun(<<"init">>)
    /\ ret' = NoRet
    /\ err' = NoErr
    /\ UNCHANGED <<options, simResults, keep, norm, seen, pri, atg, res,
                   mdl, cov>>

\* Session.predict, up to the first _run_dismod.
Predict(var) ==
    /\ call.op = "idle"
    /\ args' = NoArgs
    /\ IF ~check_vars(var)
       THEN /\ Raise(Error("incomplete", "var"))
            /\ Locals(<<>>, NoProc, <<>>)
            /\ events' = <<>>
            /\ UNCHANGED <<options, optTable, bound, dbOpen, mem, pending,
                           file, simResults, initialized, keep, norm, seen,
                           pri, atg, res,
                   mdl, cov>>
       ELSE /\ SetupWrites("avgint")
            /\ call' = Call("predict", "", FALSE, var, 0)
            /\ EnterRun(<<"init">>)
            /\ ret' = NoRet
            /\ err' = NoErr
            /\ UNCHANGED <<options, simResults, keep, norm, seen, pri, atg, res,
                   mdl, cov>>

\* Session.simulate, up to the first _run_dismod.
Simulate(model, data, fit_var, simulate_count) ==
    /\ call.op = "idle"
    /\ IF null_names(data)
       THEN /\ Raise(Error("RuntimeError", "data names"))
            /\ Locals(<<>>, NoProc, <<>>)
            /\ events' = <<>>
            /\ args' = NoArgs
            /\ UNCHANGED <<options, optTable, bound, dbOpen, mem, pending,
                           file, simResults, initialized, keep, norm, seen,
                           pri, atg, res,
                   mdl, cov>>
       ELSE IF Truthy(fit_var) /\ check_alignment(model, fit_var) # {}
       THEN /\ Raise(Error("misaligned", "fit var"))
            /\ Locals(<<>>, NoProc, <<>>)
            /\ events' = <<>>
            /\ args' = NoArgs
            /\ UNCHANGED <<options, optTable, bound, dbOpen, mem, pending,
                           file, simResults, initialized, keep, norm, seen,
                           pri, atg, res,
                   mdl, cov>>
       ELSE /\ SetupWrites("data")
            /\ call' = Call("simulate", "", model.scaleUser, fit_var,
                            simulate_count)
            /\ args' = IF keep
                       THEN Args("simulate", model.re, data,
                                 amend_data_input(data))
                       ELSE NoArgs
            /\ EnterRun(<<"init">>)
            /\ ret' = NoRet
            /\ err' = NoErr
            /\ UNCHANGED <<options, simResults, keep, norm, seen, pri, atg, res,
                   mdl, cov>>

\* Session.sample asking for the samples of one simulation, whatever the
\* count of its argument.
SampleOne(count) ==
    /\ call.op = "idle"
    /\ count \in simResults
    /\ events' = <<>>
    /\ call' = Call("sample", "", FALSE, "None", count)
    /\ EnterRun(<<"sample", "simulate", "1">>)
    /\ ret' = NoRet
    /\ err' = NoErr
    /\ args' = NoArgs
    /\ UNCHANGED <<options, optTable, bound, dbOpen, mem, pending, file,
                   simResults, initialized, keep, norm, seen, pri, atg, res,
                   mdl, cov>>

\* Session.sample(simulate_result), up to its _run_dismod. The argument is
\* a SimulateResult an earlier simulate call of this Session returned.
Sample(count) ==
    /\ call.op = "idle"
    /\ count \in simResults
    /\ events' = <<>>
    /\ call' = Call("sample", "", FALSE, "None", count)
    /\ EnterRun(<<"sample", "simulate", Str(count)>>)
    /\ ret' = NoRet
    /\ err' = NoErr
    /\ args' = NoArgs
    /\ UNCHANGED <<options, optTable, bound, dbOpen, mem, pending, file,
                   simResults, initialized, keep, norm, seen, pri, atg, res,
                   mdl, cov>>

\* set_option putting the keyword in place of the mapping.
SetOptionReplaces(k, v) ==
    /\ call.op = "idle"
    /\ options' = [NoOptions EXCEPT ![k] = v]
    /\ IF bound
       THEN /\ optTable' = options'
            /\ pending' = pending \cup {"option"}
            /\ initialized' = IF optTable' = optTable THEN initialized
                               ELSE FALSE
            /\ events' = <<Ev(k, Str(v)), Ev("write", "option")>>
       ELSE /\ events' = <<Ev(k, Str(v))>>
            /\ UNCHANGED <<optTable, pending, initialized>>
    /\ ret' = Result("None", "none", NoProc, 0)
    /\ err' = NoErr
    /\ UNCHANGED <<mem, bound, dbOpen, file, log, call, pc, cmd, proc,
                   simResults, keep, args, norm, seen, pri, atg, res,
                   mdl, cov>>

\* set_option only updating self._options, db file or not.
SetOptionBuffers(k, v) ==
    /\ call.op = "idle"
    /\ options' = [options EXCEPT ![k] = v]
    /\ events' = <<Ev(k, Str(v))>>
    /\ ret' = Result("None", "none", NoProc, 0)
    /\ err' = NoErr
    /\ UNCHANGED <<optTable, pending, initialized, mem, bound, dbOpen, file,
                   log, call, pc, cmd, proc, simResults, keep, args, norm,
                   seen, pri, atg, res,
                   mdl, cov>>

\* Session.set_option(**kwargs), one keyword at a time: the trace of the
\* call starts with the keyword and its value. A push of the mapping that
\* leaves the option table as it was is no change of the options.
SetOption(k, v) ==
    /\ call.op = "idle"
    /\ options' = [options EXCEPT ![k] = v]
    /\ IF bound
       THEN /\ optTable' = options'
            /\ pending' = pending \cup {"option"}
            /\ initialized' = IF optTable' = optTable THEN initialized
                               ELSE FALSE
            /\ events' = <<Ev(k, Str(v)), Ev("write", "option")>>
       ELSE /\ events' = <<Ev(k, Str(v))>>
            /\ UNCHANGED <<optTable, pending, initialized>>
    /\ ret' = Result("None", "none", NoProc, 0)
    /\ err' = NoErr
    /\ UNCHANGED <<mem, bound, dbOpen, file, log, call, pc, cmd, proc,
                   simResults, keep, args, norm, seen, pri, atg, res,
                   mdl, cov>>

\* Session.set_minimum_meas_cv(**kwargs), one keyword at a time: the value
\* goes to ObjectWrapper.set_minimum_meas_cv whether a db file is bound or
\* not, and self._options is not touched. With a db file the wrapper
\* changes its integrand table; without one the call comes back or raises,
\* and the Session has kept nothing of the value.
SetMinimumMeasCv(k, v) ==
    /\ call.op = "idle"
    /\ IF bound
       THEN /\ pending' = pending \cup {"integrand"}
            /\ initialized' = FALSE
            /\ events' = <<Ev("set_minimum_meas_cv", k), Ev(k, Str(v)),
                           Ev("write", "integrand")>>
            /\ ret' = Result("None", "none", NoProc, 0)
            /\ err' = NoErr
       ELSE /\ events' = <<Ev("set_minimum_meas_cv", k), Ev(k, Str(v))>>
            /\ UNCHANGED <<pending, initialized>>
            /\ \/ /\ ret' = Result("None", "none", NoProc, 0)
                  /\ err' = NoErr
               \/ /\ ret' = NoRet
                  /\ err' = Error("AttributeError", "set_minimum_meas_cv")
    /\ UNCHANGED <<options, optTable, mem, bound, dbOpen, file, log, call, pc,
                   cmd, proc, simResults, keep, args, norm, seen, pri, atg, res,
                   mdl, cov>>

\* ------------------------------------------------------- _run_dismod

\* _run_dismod without its flush: the pending writes stay in memory.
RunWithoutFlush ==
    /\ pc = "flush"
    /\ file' = Aged(file)
    /\ mem' = Aged(mem)
    /\ pc' = "close"
    /\ UNCHANGED <<options, optTable, bound, dbOpen, pending, log, call, cmd,
                   proc, events, ret, err, simResults, initialized, keep,
                   args, norm, seen, pri, atg, res,
                   mdl, cov>>

\* self._objects.flush()
RunFlush ==
    /\ pc = "flush"
    /\ file' = Aged(flush(mem, file, pending))
    /\ mem' = Aged(mem)
    /\ pending' = {}
    /\ events' = Append(events, Ev("flush", cmd[1]))
    /\ pc' = "close"
    /\ UNCHANGED <<options, optTable, bound, dbOpen, log, call, cmd, proc,
                   ret, err, simResults, initialized, keep, args, norm, seen,
                   pri, atg, res,
                   mdl, cov>>

\* Entering `with self._objects.close_db_while_running():`
RunClose ==
    /\ pc = "close"
    /\ dbOpen' = close_db_enter(dbOpen)
    /\ events' = Append(events, Ev("close", cmd[1]))
    /\ pc' = "spawn"
    /\ UNCHANGED <<options, optTable, bound, mem, pending, file, log, call,
                   cmd, proc, ret, err, simResults, initialized, keep, args,
                   norm, seen, pri, atg, res,
                   mdl, cov>>

\* run_with_logging called after a plain close, outside any with block: an
\* exception leaves the db closed.
RunSpawnUnguarded ==
    /\ pc = "spawn"
    /\ \/ /\ pc' = "running"
          /\ events' = Append(events, Ev("spawn", cmd[1]))
          /\ seen' = IF keep /\ cmd[1] = "init" THEN optTable ELSE seen
          /\ UNCHANGED <<dbOpen, log, call, cmd, proc, ret, err>>
       \/ /\ UNCHANGED <<dbOpen, seen>>
          /\ events' = events
          /\ Raise(Error("OSError", cmd[1]))
          /\ Locals(cmd, NoProc, <<>>)
    /\ UNCHANGED <<options, optTable, bound, mem, pending, file, simResults,
                   initialized, keep, args, norm, pri, atg, res,
                   mdl, cov>>

\* run_with_logging(["dmdismod", filename] + str_command) is called: the
\* process starts, or starting it raises; the exception leaves the with
\* block, which reopens the db, and then the public call.
RunSpawn ==
    /\ pc = "spawn"
    /\ \/ /\ pc' = "running"
          /\ events' = Append(events, Ev("spawn", cmd[1]))
          /\ seen' = IF keep /\ cmd[1] = "init" THEN optTable ELSE seen
          /\ UNCHANGED <<dbOpen, log, call, cmd, proc, ret, err>>
       \/ /\ dbOpen' = close_db_exit(dbOpen)
          /\ UNCHANGED seen
          /\ events' = Append(events, Ev("reopen", cmd[1]))
          /\ Raise(Error("OSError", cmd[1]))
          /\ Locals(cmd, NoProc, <<>>)
    /\ UNCHANGED <<options, optTable, bound, mem, pending, file, simResults,
                   initialized, keep, args, norm, pri, atg, res,
                   mdl, cov>>

\* What one run of dmdismod leaves in the file: wrote tells whether it got
\* as far as writing the command's output tables.
EngineWrites(f, command, wrote) ==
    IF ~wrote THEN f
    ELSE CASE command = "init" ->
                [f EXCEPT !.start = "engine", !.scale = "engine"]
           [] command = "fit" -> [f EXCEPT !.fit = "new"]
           [] OTHER -> f

\* The last message of the log table after a run of command, cut into
\* words: the line that ends it, a longer message that holds that line,
\* another line, or none.
LogTails(command) ==
    {<<"end", command>>, <<"at", "end", command>>, <<"begin", command>>,
     <<>>}

\* _run_dismod without its assert on return_code (as under python -O).
RunErrorNoAssert(command, class, rc) ==
    CASE class = "oom" -> Error("DismodATException", "out of memory")
      [] class = "failed" -> Error("DismodATException", command)
      [] OTHER -> NoErr

\* What the two statements after the with block raise:
\* _check_dismod_command first, then the assert on return_code.
RunError(command, class, rc) ==
    CASE class = "oom" -> Error("DismodATException", "out of memory")
      [] class = "failed" -> Error("DismodATException", command)
      [] rc # 0 -> Error("AssertionError", "return code")
      [] OTHER -> NoErr

\* The trace of _run_dismod from the end of the process on: the with block
\* is left, the log is read, MATHLOG.warning is called if the run is
\* classified "warn", and unless e is raised the command's output tables
\* are refreshed.
ExitTrace(command, class, e) ==
    <<Ev("exit", command), Ev("reopen", command), Ev("read_log", command)>>
      \o (IF class = "warn" THEN <<Ev("warning", command)>> ELSE <<>>)
      \o (IF e = NoErr /\ command \in DOMAIN COMMAND_IO
          THEN <<Ev("refresh", command)>> ELSE <<>>)

\* _run_dismod starting the command over when it has failed.
ProcessExitRetries ==
    /\ pc = "running"
    /\ \E rc \in {0, 1}, so \in Stdouts(cmd[1]), se \in SUBSET Sentinels,
          lg \in LogTails(cmd[1]), wrote \in BOOLEAN :
          LET class == check_dismod_command(cmd[1], lg, so, se)
              e == RunError(cmd[1], class, rc)
              f == EngineWrites(file, cmd[1], wrote)
              p == [rc |-> rc, stdout |-> Recorded(so),
                    stderr |-> IF res.on THEN {} ELSE se]
          IN  /\ lg = <<"end", cmd[1]>> => wrote
              /\ file' = f
              /\ dbOpen' = close_db_exit(dbOpen)
              /\ IF e # NoErr
                 THEN /\ pc' = "flush"
                      /\ events' = events
                      /\ UNCHANGED <<mem, log, proc, call, cmd, ret, err>>
                 ELSE /\ pc' = "ret"
                      /\ events' = events \o ExitTrace(cmd[1], class, e)
                      /\ log' = IF keep THEN lg ELSE <<>>
                      /\ proc' = IF keep \/ cmd[1] = "fit" THEN p ELSE NoProc
                      /\ mem' = IF cmd[1] \in DOMAIN COMMAND_IO
                                THEN refresh(mem, f, COMMAND_IO[cmd[1]])
                                ELSE mem
                      /\ UNCHANGED <<call, cmd, ret, err>>
    /\ UNCHANGED <<options, optTable, bound, pending, simResults, initialized,
                   keep, args, norm, seen, pri, atg, res, mdl, cov>>

\* The process runs to its end, run_with_logging returns and _run_dismod
\* runs to its own end. The exit status, the captured output and what the
\* process wrote are the environment's choice; a process that logs
\* "end <command>" has written the command's output. Of the callers only
\* _fit keeps the stdout, stderr that _run_dismod returns.
ProcessExit ==
    /\ pc = "running"
    /\ \E rc \in {0, 1}, so \in Stdouts(cmd[1]), se \in SUBSET Sentinels,
          lg \in LogTails(cmd[1]), wrote \in BOOLEAN :
          LET class == check_dismod_command(cmd[1], lg, so, se)
              e == RunError(cmd[1], class, rc)
              f == EngineWrites(file, cmd[1], wrote)
              p == [rc |-> rc, stdout |-> Recorded(so),
                    stderr |-> IF res.on THEN {} ELSE se]
          IN  /\ lg = <<"end", cmd[1]>> => wrote
              /\ file' = f
              /\ dbOpen' = close_db_exit(dbOpen)
              /\ events' = events \o ExitTrace(cmd[1], class, e)
              /\ IF e # NoErr
                 THEN /\ Raise(e)
                      /\ Locals(cmd, p, lg)
                      /\ UNCHANGED mem
                 ELSE /\ pc' = "ret"
                      /\ log' = IF keep THEN lg ELSE <<>>
                      /\ proc' = IF keep \/ cmd[1] = "fit" THEN p ELSE NoProc
                      /\ mem' = IF cmd[1] \in DOMAIN COMMAND_IO
                                THEN refresh(mem, f, COMMAND_IO[cmd[1]])
                                ELSE mem
                      /\ UNCHANGED <<call, cmd, ret, err>>
    /\ UNCHANGED <<options, optTable, bound, pending, simResults, initialized,
                   keep, args, norm, seen, pri, atg, res, mdl, cov>>

\* ---------------------------------------- after _run_dismod returns

\* setup_model_for_fit looking at the initial guess before the model's scale.
SetupScaleGuessFirst(m, scaleUser, guess) ==
    IF guess # "None" THEN [m EXCEPT !.scale = "guess"]
    ELSE IF scaleUser THEN [m EXCEPT !.scale = "model"]
    ELSE m

\* The rest of setup_model_for_fit after `self._run_dismod(["init"])`: the
\* scale var the store gets.
SetupScale(m, scaleUser, guess) ==
    IF scaleUser THEN [m EXCEPT !.scale = "model"]
    ELSE IF guess # "None" THEN [m EXCEPT !.scale = "guess"]
    ELSE m

\* What that part of setup_model_for_fit leaves of the model: only when
\* neither the user's scale nor a guess is there, model._scale is assigned
\* what the store's scale var holds; scale_set_by_user is not assigned.
ModelAfter(scaleUser, guess, storeScale) ==
    Mdl(TRUE, scaleUser,
        IF scaleUser THEN "model"
        ELSE IF guess # "None" THEN "before"
        ELSE storeScale)

\* The tables that part of setup_model_for_fit writes.
ScaleWrites(scaleUser, guess) ==
    IF scaleUser \/ guess # "None" THEN {"scale"} ELSE {}

\* The trace of writing the tables ts, one at most.
WriteEvents(ts) ==
    IF ts = {} THEN <<>> ELSE <<Ev("write", CHOOSE t \in ts : TRUE)>>

\* init has returned to setup_model_for_fit, called directly: it sets the
\* scale and returns None.
SetupAfterInit ==
    /\ pc = "ret" /\ cmd[1] = "init" /\ call.op = "setup"
    /\ mem' = SetupScale(mem, call.scaleUser, call.guess)
    /\ pending' = pending \cup ScaleWrites(call.scaleUser, call.guess)
    /\ events' = events
                   \o WriteEvents(ScaleWrites(call.scaleUser, call.guess))
    /\ initialized' = TRUE
    /\ Return(Result("None", "none", NoProc, 0))
    /\ mdl' = IF mdl.on
              THEN ModelAfter(call.scaleUser, call.guess, mem.scale)
              ELSE mdl
    /\ UNCHANGED <<options, optTable, bound, dbOpen, file, simResults, keep,
                   args, norm, seen, pri, atg, res, cov>>

\* _fit pushing the options once more after init, before the fit command.
FitAfterInitPushesOptions ==
    /\ pc = "ret" /\ cmd[1] = "init" /\ call.op = "fit"
    /\ LET m1 == SetupScale(mem, call.scaleUser, call.guess)
       IN  mem' = IF call.guess # "None"
                  THEN [m1 EXCEPT !.start = "guess"] ELSE m1
    /\ pending' = pending \cup ScaleWrites(call.scaleUser, call.guess)
                    \cup (IF call.guess # "None" THEN {"start"} ELSE {})
                    \cup {"option"}
    /\ events' = events
                   \o WriteEvents(ScaleWrites(call.scaleUser, call.guess))
                   \o WriteEvents(IF call.guess # "None" THEN {"start"} ELSE {})
                   \o WriteEvents({"option"})
    /\ initialized' = FALSE
    /\ EnterRun(<<"fit", call.level>>)
    /\ mdl' = IF mdl.on
              THEN ModelAfter(call.scaleUser, call.guess, mem.scale)
              ELSE mdl
    /\ UNCHANGED <<options, optTable, bound, dbOpen, file, call, ret, err,
                   simResults, keep, args, norm, seen, pri, atg, res, cov>>

\* _fit leaving start_var as init made it, whatever the initial guess.
FitAfterInitDropsGuess ==
    /\ pc = "ret" /\ cmd[1] = "init" /\ call.op = "fit"
    /\ mem' = SetupScale(mem, call.scaleUser, call.guess)
    /\ pending' = pending \cup ScaleWrites(call.scaleUser, call.guess)
    /\ events' = events
                   \o WriteEvents(ScaleWrites(call.scaleUser, call.guess))
    /\ initialized' = TRUE
    /\ EnterRun(<<"fit", call.level>>)
    /\ mdl' = IF mdl.on
              THEN ModelAfter(call.scaleUser, call.guess, mem.scale)
              ELSE mdl
    /\ UNCHANGED <<options, optTable, bound, dbOpen, file, call, ret, err,
                   simResults, keep, args, norm, seen, pri, atg, res, cov>>

\* init has returned to setup_model_for_fit, called by _fit: the scale is
\* set, then _fit sets start_var from the guess, if there is one, and runs
\* the fit command.
FitAfterInit ==
    /\ pc = "ret" /\ cmd[1] = "init" /\ call.op = "fit"
    /\ LET m1 == SetupScale(mem, call.scaleUser, call.guess)
       IN  mem' = IF call.guess # "None"
                  THEN [m1 EXCEPT !.start = "guess"] ELSE m1
    /\ pending' = pending \cup ScaleWrites(call.scaleUser, call.guess)
                    \cup (IF call.guess # "None" THEN {"start"} ELSE {})
    /\ events' = events
                   \o WriteEvents(ScaleWrites(call.scaleUser, call.guess))
                   \o WriteEvents(IF call.guess # "None" THEN {"start"} ELSE {})
    /\ initialized' = TRUE
    /\ EnterRun(<<"fit", call.level>>)
    /\ mdl' = IF mdl.on
              THEN ModelAfter(call.scaleUser, call.guess, mem.scale)
              ELSE mdl
    /\ UNCHANGED <<options, optTable, bound, dbOpen, file, call, ret, err,
                   simResults, keep, args, norm, seen, pri, atg, res, cov>>

\* simulate asking for one simulation, whatever simulate_count.
SimulateAfterInitOnce ==
    /\ pc = "ret" /\ cmd[1] = "init" /\ call.op = "simulate"
    /\ mem' = [SetupScale(mem, call.scaleUser, call.guess)
                 EXCEPT !.truth = call.guess]
    /\ pending' = pending \cup ScaleWrites(call.scaleUser, call.guess)
                    \cup {"truth"}
    /\ events' = events
                   \o WriteEvents(ScaleWrites(call.scaleUser, call.guess))
                   \o WriteEvents({"truth"})
    /\ initialized' = TRUE
    /\ EnterRun(<<"simulate", "1">>)
    /\ mdl' = IF mdl.on
              THEN ModelAfter(call.scaleUser, call.guess, mem.scale)
              ELSE mdl
    /\ UNCHANGED <<options, optTable, bound, dbOpen, file, call, ret, err,
                   simResults, keep, args, norm, seen, pri, atg, res, cov>>

\* init has returned to setup_model_for_fit, called by simulate: the scale
\* is set, then simulate sets truth_var and runs the simulate command.
SimulateAfterInit ==
    /\ pc = "ret" /\ cmd[1] = "init" /\ call.op = "simulate"
    /\ mem' = [SetupScale(mem, call.scaleUser, call.guess)
                 EXCEPT !.truth = call.guess]
    /\ pending' = pending \cup ScaleWrites(call.scaleUser, call.guess)
                    \cup {"truth"}
    /\ events' = events
                   \o WriteEvents(ScaleWrites(call.scaleUser, call.guess))
                   \o WriteEvents({"truth"})
    /\ initialized' = TRUE
    /\ EnterRun(<<"simulate", Str(call.count)>>)
    /\ mdl' = IF mdl.on
              THEN ModelAfter(call.scaleUser, call.guess, mem.scale)
              ELSE mdl
    /\ UNCHANGED <<options, optTable, bound, dbOpen, file, call, ret, err,
                   simResults, keep, args, norm, seen, pri, atg, res, cov>>

\* init has returned to predict: it sets truth_var and runs predict.
PredictAfterInit ==
    /\ pc = "ret" /\ cmd[1] = "init" /\ call.op = "predict"
    /\ mem' = [mem EXCEPT !.truth = call.guess]
    /\ pending' = pending \cup {"truth"}
    /\ events' = events \o WriteEvents({"truth"})
    /\ initialized' = TRUE
    /\ EnterRun(<<"predict", "truth_var">>)
    /\ UNCHANGED <<options, optTable, bound, dbOpen, file, call, ret, err,
                   simResults, keep, args, norm, seen, pri, atg, res,
                   mdl, cov>>

\* `fit <level>` has returned to _fit:
\* return FitResult(self._objects, self._objects.fit_var, dm_out, dm_err)
FitReturn ==
    /\ pc = "ret" /\ cmd[1] = "fit"
    /\ Return(Result("FitResult", mem.fit, proc, 0))
    /\ events' = Append(events, Ev("return", cmd[1]))
    /\ UNCHANGED <<options, optTable, bound, dbOpen, mem, pending, file,
                   simResults, initialized, keep, args, norm, seen, pri, atg, res,
                   mdl, cov>>

\* `predict truth_var` has returned: return predicted, not_predicted
PredictReturn ==
    /\ pc = "ret" /\ cmd[1] = "predict"
    /\ Return(Result("predicted", "none", NoProc, 0))
    /\ events' = Append(events, Ev("return", cmd[1]))
    /\ UNCHANGED <<options, optTable, bound, dbOpen, mem, pending, file,
                   simResults, initialized, keep, args, norm, seen, pri, atg, res,
                   mdl, cov>>

\* `simulate <count>` has returned:
\* return SimulateResult(self._objects, simulate_count, model, data)
SimulateReturn ==
    /\ pc = "ret" /\ cmd[1] = "simulate"
    /\ Return(Result("SimulateResult", "none", NoProc, call.count))
    /\ simResults' = simResults \cup {call.count}
    /\ events' = Append(events, Ev("return", cmd[1]))
    /\ UNCHANGED <<options, optTable, bound, dbOpen, mem, pending, file,
                   initialized, keep, args, norm, seen, pri, atg, res,
                   mdl, cov>>

\* `sample simulate <count>` has returned: return self._objects.samples
SampleReturn ==
    /\ pc = "ret" /\ cmd[1] = "sample"
    /\ Return(Result("samples", "none", NoProc, call.count))
    /\ events' = Append(events, Ev("return", cmd[1]))
    /\ UNCHANGED <<options, optTable, bound, dbOpen, mem, pending, file,
                   simResults, initialized, keep, args, norm, seen, pri, atg, res,
                   mdl, cov>>

\* ------------------------------------------------------ covariates

\* float(x): the float of a number, itself in this model's numbers; raises
\* TypeError on None and ValueError on a text that is no number.
float_error(x) ==
    IF x = Unset THEN "float() argument must be a string or a real number"
    ELSE IF x = NotANumber THEN "could not convert string to float"
    ELSE ""

\* The name setter.
set_name(c, nom) ==
    IF ~nom.isStr
    THEN [c EXCEPT !.raised = "CovariateColumn name must be a string"]
    ELSE IF nom.text = ""
    THEN [c EXCEPT !.raised = "CovariateColumn name must not be empty string"]
    ELSE [c EXCEPT !.name = nom, !.raised = ""]

\* The reference setter: self._reference = float(ref)
set_reference(c, ref) ==
    IF float_error(ref) # ""
    THEN [c EXCEPT !.raised = float_error(ref)]
    ELSE [c EXCEPT !.reference = ref, !.raised = ""]

\* The max_difference setter: None is stored as it is; else float(difference)
\* is stored unless `diff <= 0`.
set_max_difference(c, difference) ==
    IF difference = Unset
    THEN [c EXCEPT !.max_difference = Unset, !.raised = ""]
    ELSE IF float_error(difference) # ""
    THEN [c EXCEPT !.raised = float_error(difference)]
    ELSE IF Le(difference, 0)
    THEN [c EXCEPT !.raised = "max difference must be positive"]
    ELSE [c EXCEPT !.max_difference = difference, !.raised = ""]

\* ------------------------------------------------------ result objects

\* FitResult.success: "Optimal Solution Found" in self.dismod_out
success(r) == optimal_marker \in r.out.stdout

\* The properties of a FitResult and of a SimulateResult.
FitProps ==
    {"success", "fit", "prior_residuals", "data_residuals", "fit_data",
     "excluded_data"}

\* What reading property prop of FitResult r returns: success is computed,
\* fit is the variable the result was made with, and the residuals are
\* what the store handle reads.
FitValue(r, prop) ==
    CASE prop = "success" -> Bool(success(r))
      [] prop = "fit" -> r.fit
      [] prop \in {"prior_residuals", "data_residuals"} -> "residuals"
      [] OTHER -> "none"

\* The caller binds what fit or simulate returned: result = session.fit(..)
KeepResult ==
    /\ res.on
    /\ call.op = "idle"
    /\ ret.kind \in {"FitResult", "SimulateResult"}
    /\ res.held # ret
    /\ res' = Res(TRUE, ret, "", "none", NoErr)
    /\ UNCHANGED <<options, bound, dbOpen, optTable, mem, pending, file, log,
                   call, pc, cmd, proc, events, ret, err, simResults,
                   initialized, keep, args, norm, seen, pri, atg,
                   mdl, cov>>

\* A read of a FitResult that reloads the tables from the db file.
ReadFitRefreshes(prop) ==
    /\ res.on
    /\ call.op = "idle"
    /\ res.held.kind = "FitResult"
    /\ res' = [res EXCEPT !.prop = prop, !.value = FitValue(res.held, prop),
                          !.raised = NoErr]
    /\ mem' = file
    /\ UNCHANGED <<options, bound, dbOpen, optTable, pending, file, log,
                   call, pc, cmd, proc, events, ret, err, simResults,
                   initialized, keep, args, norm, seen, pri, atg,
                   mdl, cov>>

\* The caller reads a property of the FitResult it holds; fit_data and
\* excluded_data raise NotImplementedError.
ReadFit(prop) ==
    /\ res.on
    /\ call.op = "idle"
    /\ res.held.kind = "FitResult"
    /\ res' = [res EXCEPT
                 !.prop = prop,
                 !.value = FitValue(res.held, prop),
                 !.raised = IF prop \in {"fit_data", "excluded_data"}
                            THEN Error("NotImplementedError", prop)
                            ELSE NoErr]
    /\ UNCHANGED <<options, bound, dbOpen, optTable, mem, pending, file, log,
                   call, pc, cmd, proc, events, ret, err, simResults,
                   initialized, keep, args, norm, seen, pri, atg,
                   mdl, cov>>

\* The caller reads SimulateResult.count: return self._count
ReadCount ==
    /\ res.on
    /\ call.op = "idle"
    /\ res.held.kind = "SimulateResult"
    /\ res' = [res EXCEPT !.prop = "count", !.value = Str(res.held.count),
                          !.raised = NoErr]
    /\ UNCHANGED <<options, bound, dbOpen, optTable, mem, pending, file, log,
                   call, pc, cmd, proc, events, ret, err, simResults,
                   initialized, keep, args, norm, seen, pri, atg,
                   mdl, cov>>

\* The caller calls SimulateResult.simulation(index), index one of the
\* simulations made: the store handle reads that simulation and returns a
\* new model and data (value: which simulation they are).
ReadSimulation(index) ==
    /\ res.on
    /\ call.op = "idle"
    /\ res.held.kind = "SimulateResult"
    /\ index \in 0..(res.held.count - 1)
    /\ res' = [res EXCEPT !.prop = "simulation", !.value = Str(index),
                          !.raised = NoErr]
    /\ UNCHANGED <<options, bound, dbOpen, optTable, mem, pending, file, log,
                   call, pc, cmd, proc, events, ret, err, simResults,
                   initialized, keep, args, norm, seen, pri, atg,
                   mdl, cov>>

\* ------------------------------------------------------ specification

Next ==
    \/ \E e \in {"fit", "fit_fixed", "fit_random"}, m \in Models,
          d \in {NamedData, NullNameData}, g \in Guesses : Fit(e, m, d, g)
    \/ \E m \in Models, g \in Guesses : SetupModelForFit(m, g)
    \/ \E v \in PredictVars : Predict(v)
    \/ \E m \in Models, d \in {NamedData, NullNameData}, g \in Guesses,
          n \in 1..MaxCount : Simulate(m, d, g, n)
    \/ \E n \in 1..MaxCount : Sample(n)
    \/ \E k \in OptKeys, v \in 1..MaxOptVal : SetOption(k, v)
    \/ RunFlush
    \/ RunClose
    \/ RunSpawn
    \/ ProcessExit
    \/ SetupAfterInit
    \/ FitAfterInit
    \/ SimulateAfterInit
    \/ PredictAfterInit
    \/ FitReturn
    \/ PredictReturn
    \/ SimulateReturn
    \/ SampleReturn

Spec == Init /\ [][Next]_vars

\* The same Session with what each run returned kept for the record, its
\* callers drawing their arguments from fewer values.
PlainModel == [kind |-> "model", re |-> FALSE, scaleUser |-> FALSE]

NextObs ==
    \/ \E e \in {"fit", "fit_fixed", "fit_random"}, g \in Guesses :
          Fit(e, PlainModel, NamedData, g)
    \/ \E g \in Guesses : SetupModelForFit(PlainModel, g)
    \/ \E v \in PredictVars : Predict(v)
    \/ \E g \in Guesses, n \in 1..MaxCount :
          Simulate(PlainModel, NamedData, g, n)
    \/ \E n \in 1..MaxCount : Sample(n)
    \/ RunFlush
    \/ RunClose
    \/ RunSpawn
    \/ ProcessExit
    \/ SetupAfterInit
    \/ FitAfterInit
    \/ SimulateAfterInit
    \/ PredictAfterInit
    \/ FitReturn
    \/ PredictReturn
    \/ SimulateReturn
    \/ SampleReturn

SpecObs == InitObs /\ [][NextObs]_vars

\* The fit and simulate calls of a Session, with the arguments of each
\* call kept for the record: every entry point, models with and without
\* random effects, data with and without names.
NextArgs ==
    \/ \E e \in {"fit", "fit_fixed", "fit_random"}, r \in BOOLEAN,
          d \in DataArgs, g \in {"None", "misaligned"} :
          Fit(e, [PlainModel EXCEPT !.re = r], d, g)
    \/ \E d \in DataArgs, g \in {"None", "misaligned"} :
          Simulate(PlainModel, d, g, 1)
    \/ RunFlush
    \/ RunClose
    \/ RunSpawn
    \/ ProcessExit
    \/ FitAfterInit
    \/ SimulateAfterInit
    \/ FitReturn
    \/ SimulateReturn

SpecArgs == InitObs /\ [][NextArgs]_vars

\* A Session on which only simulate and sample are called, with several
\* values of simulate_count.
NextSim ==
    \/ \E m \in Models, d \in {NamedData, NullNameData}, g \in Guesses,
          n \in 1..MaxSimCount : Simulate(m, d, g, n)
    \/ \E n \in 1..MaxSimCount : Sample(n)
    \/ RunFlush
    \/ RunClose
    \/ RunSpawn
    \/ ProcessExit
    \/ SimulateAfterInit
    \/ SimulateReturn
    \/ SampleReturn

SpecSim == Init /\ [][NextSim]_vars

\* A Session on which options are set, to several values, between calls
\* that run init and calls that do not.
NextOpt ==
    \/ \E k \in OptKeys, v \in 1..MaxOptSet : SetOption(k, v)
    \/ SetupModelForFit(PlainModel, "None")
    \/ Simulate(PlainModel, NamedData, "None", 1)
    \/ Sample(1)
    \/ RunFlush
    \/ RunClose
    \/ RunSpawn
    \/ ProcessExit
    \/ SetupAfterInit
    \/ SimulateAfterInit
    \/ SimulateReturn
    \/ SampleReturn

SpecOpt == InitObs /\ [][NextOpt]_vars

\* A Session on which minimum coefficients of variation and options are
\* set before and after a db file is bound.
NextCv ==
    \/ \E k \in OptKeys, v \in 1..MaxOptSet : SetMinimumMeasCv(k, v)
    \/ \E k \in OptKeys, v \in 1..MaxOptSet : SetOption(k, v)
    \/ SetupModelForFit(PlainModel, "None")
    \/ RunFlush
    \/ RunClose
    \/ RunSpawn
    \/ ProcessExit
    \/ SetupAfterInit

SpecCv == Init /\ [][NextCv]_vars

\* _amend_data_input is applied to a table, and then to what it returned.
Amend ==
    /\ norm.stage \in {"given", "once"}
    /\ LET data == IF norm.stage = "given" THEN norm.given ELSE norm.once
       IN  norm' =
             IF null_names(data) THEN [norm EXCEPT !.stage = "raised"]
             ELSE IF norm.stage = "given"
                  THEN [norm EXCEPT !.stage = "once",
                                    !.once = amend_data_input(data)]
                  ELSE [norm EXCEPT !.stage = "twice",
                                    !.twice = amend_data_input(data)]
    /\ UNCHANGED <<options, bound, dbOpen, optTable, mem, pending, file, log,
                   call, pc, cmd, proc, events, ret, err, simResults,
                   initialized, keep, args, seen, pri, atg, res,
                   mdl, cov>>

\* Any table a caller can pass, in front of a Session that makes no call.
InitData ==
    /\ InitSession
    /\ keep = FALSE
    /\ norm \in {Norm("given", t, NoTable, NoTable) : t \in GivenTables}
    /\ pri = NoPri /\ atg = NoGrid /\ res = NoRes
    /\ mdl = Mdl(FALSE, FALSE, "before") /\ cov = NoCov

NextData == Amend

SpecData == InitData /\ [][NextData]_vars

\* Everything of the Session, and the table and the grid.
Rest ==
    <<options, bound, dbOpen, optTable, mem, pending, file, log, call, pc,
      cmd, proc, events, ret, err, simResults, initialized, keep, args,
      norm, seen, res, mdl>>

\* The first prior is constructed.
MakeP(kind, name, lower, mean, upper, std, nu, eta) ==
    /\ pri.p = NoPrior
    /\ pri' = [pri EXCEPT
                 !.p = PriorInit(kind, name, lower, mean, upper, std, nu, eta)]
    /\ UNCHANGED <<Rest, atg, cov>>

\* The second prior is constructed.
MakeQ(kind, name, lower, mean, upper, std, nu, eta) ==
    /\ Made(pri.p)
    /\ pri.q = NoPrior
    /\ pri' = [pri EXCEPT
                 !.q = PriorInit(kind, name, lower, mean, upper, std, nu, eta)]
    /\ UNCHANGED <<Rest, atg, cov>>

\* `p == q` and `hash(p) == hash(q)` are evaluated.
Compare ==
    /\ Made(pri.p) /\ Made(pri.q)
    /\ pri.eq = "none"
    /\ pri' = [pri EXCEPT !.eq = Bool(prior_eq(pri.p, pri.q)),
                          !.hash = Bool(prior_hash_eq(pri.p, pri.q))]
    /\ UNCHANGED <<Rest, atg, cov>>

\* The values a constructor is given for a parameter it takes.
Given(takes, values) == IF takes THEN values ELSE {Unset}

\* One prior of any kind is constructed from any numbers.
NextPrior ==
    /\ pri.p = NoPrior
    /\ \E kind \in Kinds, lower \in Floats, mean \in Floats,
          upper \in Floats :
          \E std \in Given(HasStd(kind), Floats),
             nu \in Given(HasNu(kind), Floats),
             eta \in Given(HasEta(kind), {0}) :
             MakeP(kind, "None", lower, mean, upper, std, nu, eta)

SpecPrior == Init /\ [][NextPrior]_vars

\* Two priors are constructed, with the default bounds and with or without
\* a name, and compared.
PairNames == {"None", "a", "b"}
NextPriorEq ==
    \/ \E kind \in Kinds, name \in PairNames, mean \in 0..MaxPriorVal :
          MakeP(kind, name, NegInf, mean, PosInf,
                IF HasStd(kind) THEN 1 ELSE Unset,
                IF HasNu(kind) THEN 1 ELSE Unset,
                IF HasEta(kind) THEN 0 ELSE Unset)
    \/ \E kind \in Kinds, name \in PairNames, mean \in 0..MaxPriorVal :
          MakeQ(kind, name, NegInf, mean, PosInf,
                IF HasStd(kind) THEN 1 ELSE Unset,
                IF HasNu(kind) THEN 1 ELSE Unset,
                IF HasEta(kind) THEN 0 ELSE Unset)
    \/ Compare

SpecPriorEq == Init /\ [][NextPriorEq]_vars

\* AgeTimeGrid((ages, times), columns) with ages 1..n and times 1..m.
GridConstruct(n, m, columns) ==
    /\ ~atg.made
    /\ atg' = Grid(1..n, 1..m, columns, columns,
                   Product(n, m, Len(columns)), Mulstd, 0, "")
    /\ UNCHANGED <<Rest, pri, cov>>

\* `grid[sel] = value`, the value being that of the next assignment: a
\* range error or a shape error leaves the grid as it was.
SetItem(sel, kind) ==
    LET value == Value(atg, kind, atg.writes + 1)
        raises == (IF RangeError(atg, sel) THEN {"RangeError"} ELSE {})
                    \cup (IF ShapeError(atg, value) THEN {"ShapeError"}
                          ELSE {})
    IN  /\ atg.made
        /\ atg.writes < MaxWrites
        /\ IF raises # {}
           THEN \E e \in raises :
                   atg' = [atg EXCEPT !.writes = @ + 1, !.err = e]
           ELSE atg' = [atg EXCEPT !.writes = @ + 1, !.err = "",
                                   !.rows = Assign(atg, sel, value)]
        /\ UNCHANGED <<Rest, pri, cov>>

\* `grid[a, t] = value`.
SetPoint(a, t, kind) == SetItem(Point(a, t), kind)

\* `grid[a0:a1, t0:t1] = value`.
SetRange(a0, a1, t0, t1, kind) == SetItem(<<a0, a1, t0, t1>>, kind)

\* `grid.grid = grid.grid[new_cols]` with the columns the other way round.
ReorderColumns ==
    /\ atg.made
    /\ Len(atg.order) > 1
    /\ atg' = [atg EXCEPT !.order = Reverse(atg.order),
                          !.rows = Reproject(atg, Reverse(atg.order))]
    /\ UNCHANGED <<Rest, pri, cov>>

\* The rows of the store are put the other way round.
ReorderRows ==
    /\ atg.made
    /\ Len(atg.rows) > 1
    /\ atg' = [atg EXCEPT !.rows = Reverse(atg.rows)]
    /\ UNCHANGED <<Rest, pri, cov>>

\* A grid is made and assigned to, by point and by range, and reordered.
NextGrid ==
    \/ \E n \in 1..MaxBreaks, m \in 1..MaxBreaks, columns \in ColumnLists :
          GridConstruct(n, m, columns)
    \/ \E a \in 0..(MaxBreaks + 1), t \in 0..(MaxBreaks + 1),
          kind \in ValueKinds : SetPoint(a, t, kind)
    \/ \E sa \in Slices, st \in Slices, kind \in WholeValues :
          SetRange(sa[1], sa[2], st[1], st[2], kind)
    \/ ReorderColumns
    \/ ReorderRows

SpecGrid == Init /\ [][NextGrid]_vars

\* A Session whose caller keeps the results of fit and simulate and reads
\* them, between calls that set options, fit and simulate again.
InitRes ==
    /\ InitSession
    /\ keep = FALSE
    /\ norm = NoNorm /\ pri = NoPri /\ atg = NoGrid
    /\ res = Res(TRUE, NoRet, "", "none", NoErr)
    /\ mdl = Mdl(FALSE, FALSE, "before") /\ cov = NoCov

NextRes ==
    \/ Fit("fit", PlainModel, NamedData, "None")
    \/ \E n \in 1..MaxCount : Simulate(PlainModel, NamedData, "aligned", n)
    \/ SetOption("k1", 1)
    \/ RunFlush
    \/ RunClose
    \/ RunSpawn
    \/ ProcessExit
    \/ FitAfterInit
    \/ SimulateAfterInit
    \/ FitReturn
    \/ SimulateReturn
    \/ KeepResult
    \/ \E prop \in FitProps : ReadFit(prop)
    \/ ReadCount
    \/ \E index \in 0..(MaxCount - 1) : ReadSimulation(index)

SpecRes == InitRes /\ [][NextRes]_vars

\* A Session whose caller watches the Model it passes: setup_model_for_fit
\* called directly, by fit and by simulate, with and without a scale set by
\* the user, with and without a guess.
InitScale ==
    /\ InitSession
    /\ keep = FALSE
    /\ norm = NoNorm /\ pri = NoPri /\ atg = NoGrid /\ res = NoRes
    /\ mdl = Mdl(TRUE, FALSE, "before") /\ cov = NoCov

NextScale ==
    \/ \E m \in Models, g \in Guesses : Fit("fit", m, NamedData, g)
    \/ \E m \in Models, g \in Guesses : SetupModelForFit(m, g)
    \/ \E m \in Models, g \in Guesses, n \in 1..MaxCount :
          Simulate(m, NamedData, g, n)
    \/ RunFlush
    \/ RunClose
    \/ RunSpawn
    \/ ProcessExit
    \/ SetupAfterInit
    \/ FitAfterInit
    \/ SimulateAfterInit
    \/ FitReturn
    \/ SimulateReturn

SpecScale == InitScale /\ [][NextScale]_vars

\* A Session under the observer on which every command with more than one
\* token is run: fit at each level, and sample simulate <count>.
NextLog ==
    \/ \E e \in {"fit", "fit_fixed", "fit_random"}, r \in BOOLEAN :
          Fit(e, [PlainModel EXCEPT !.re = r], NamedData, "None")
    \/ \E n \in 1..MaxCount : Simulate(PlainModel, NamedData, "aligned", n)
    \/ \E n \in 1..MaxCount : Sample(n)
    \/ RunFlush
    \/ RunClose
    \/ RunSpawn
    \/ ProcessExit
    \/ FitAfterInit
    \/ SimulateAfterInit
    \/ FitReturn
    \/ SimulateReturn
    \/ SampleReturn

SpecLog == InitObs /\ [][NextLog]_vars

\* CovariateColumn(column_name, reference, max_difference): the three
\* attributes start as None, then the setters run in turn, reference only
\* if it is not None; the first error leaves __init__, and then there is no
\* object, only the error.
ColumnInit(column_name, reference, max_difference) ==
    /\ ~cov.made
    /\ LET c0 == Column(Name(FALSE, "None"), Unset, Unset, "")
           c1 == set_name(c0, column_name)
           c2 == IF reference # Unset THEN set_reference(c1, reference)
                 ELSE c1
           c3 == set_max_difference(c2, max_difference)
           c == IF c1.raised # "" THEN c1
                ELSE IF c2.raised # "" THEN c2
                ELSE c3
       IN  cov' = IF c.raised # "" THEN [NoCov EXCEPT !.raised = c.raised]
                  ELSE c
    /\ UNCHANGED <<Rest, pri, atg>>

\* column.name = nom
SetName(nom) ==
    /\ cov.made
    /\ cov' = set_name(cov, nom)
    /\ UNCHANGED <<Rest, pri, atg>>

\* column.reference = ref
SetReference(ref) ==
    /\ cov.made
    /\ cov' = set_reference(cov, ref)
    /\ UNCHANGED <<Rest, pri, atg>>

\* column.max_difference = difference
SetMaxDifference(difference) ==
    /\ cov.made
    /\ cov' = set_max_difference(cov, difference)
    /\ UNCHANGED <<Rest, pri, atg>>

\* A CovariateColumn is made and its three attributes are set, with
\* arguments of every sort.
NextCov ==
    \/ \E column_name \in NameArgs, reference \in NumberArgs,
          max_difference \in NumberArgs :
          ColumnInit(column_name, reference, max_difference)
    \/ \E nom \in NameArgs : SetName(nom)
    \/ \E ref \in NumberArgs : SetReference(ref)
    \/ \E difference \in NumberArgs : SetMaxDifference(difference)

SpecCov == Init /\ [][NextCov]_vars

\* ------------------------------------------------------------ properties

\* What the properties read off the trace of the public call.
InTrace(ev) == \E i \in DOMAIN events : events[i] = ev
Last(s) == s[Len(s)]
IsRunStep(ev) ==
    ev.e \in {"flush", "close", "spawn", "exit", "reopen", "read_log",
              "refresh"}
IsClose(ev) == ev.e = "close"
IsReopen(ev) == ev.e = "reopen"
IsNotWarning(ev) == ev.e # "warning"
RunTrace == SelectSeq(events, IsRunStep)

\* The steps of one _run_dismod call that goes through.
RunOf(c) ==
    <<Ev("flush", c), Ev("close", c), Ev("spawn", c), Ev("exit", c),
      Ev("reopen", c), Ev("read_log", c), Ev("refresh", c)>>

\* _run_dismod has been left after dmdismod ran to its end as cmd.
Ran ==
    /\ pc \in {"none", "ret"}
    /\ Len(cmd) > 0
    /\ InTrace(Ev("exit", cmd[1]))
\* The last message of the log does not hold the line that ends cmd well.
BadLog == ~Contains(log, <<"end", cmd[1]>>)
Captured == proc.stdout \cup proc.stderr

\* C1: outside the part of _run_dismod between closing the db and the end
\* of the with block, a Session that has a db file holds it open: after a
\* normal return, a failed exit status, a failed log check and an exception
\* of run_with_logging alike, every close of the call has its reopen.
C1_StoreReopened ==
    /\ (bound /\ pc \notin {"spawn", "running"}) => dbOpen
    /\ pc \in {"none", "ret"} =>
          Len(SelectSeq(events, IsClose)) = Len(SelectSeq(events, IsReopen))

\* A fit call whose fit command could not be started has ended, db open.
C1_Witness ==
    /\ pc = "none"
    /\ err.kind = "OSError"
    /\ InTrace(Ev("close", "fit"))
    /\ dbOpen

\* The i-th run step of the trace r comes where _run_dismod puts it.
StepInOrder(r, i) ==
    LET c == r[i].c
        prev == IF i = 1 THEN Ev("start", "") ELSE r[i - 1]
    IN  CASE r[i].e = "flush" ->
                 prev.e \in {"start", "refresh"} /\ prev.c # c
          [] r[i].e = "close" -> prev = Ev("flush", c)
          [] r[i].e = "spawn" -> prev = Ev("close", c)
          [] r[i].e = "exit" -> prev = Ev("spawn", c)
          [] r[i].e = "reopen" -> prev \in {Ev("exit", c), Ev("close", c)}
          [] r[i].e = "read_log" ->
                 prev = Ev("reopen", c) /\ i > 2 /\ r[i - 2] = Ev("exit", c)
          [] r[i].e = "refresh" -> prev = Ev("read_log", c)

\* C2: the steps of every command come in the order flush, close, spawn,
\* exit, reopen, read the log, refresh, one command after the other; while
\* dmdismod runs the db is closed and nothing is left to flush; the log is
\* read only after the reopen that follows the exit.
C2_RunOrder ==
    /\ \A i \in DOMAIN RunTrace : StepInOrder(RunTrace, i)
    /\ pc = "spawn" => ~dbOpen /\ Last(RunTrace) = Ev("close", cmd[1])
    /\ pc = "running" =>
          ~dbOpen /\ pending = {} /\ Last(RunTrace) = Ev("spawn", cmd[1])

\* A predict call went through both of its commands.
C2_Witness ==
    /\ pc = "none"
    /\ ret.kind = "predicted"
    /\ RunTrace = RunOf("init") \o RunOf("predict")

\* init went through within the call, after every write of the model, the
\* options, the data and the avgint table the call made.
InitAfterWrites ==
    \E i \in DOMAIN events :
        /\ events[i] = Ev("refresh", "init")
        /\ \A j \in DOMAIN events :
              (events[j].e = "write"
                 /\ events[j].c \in {"model", "option", "data", "avgint"})
                 => j < i

C4_NonZeroExitFails ==
    (Ran /\ proc.rc # 0) =>
        /\ pc = "none"
        /\ err # NoErr
        /\ ret = NoRet
        /\ ~InTrace(Ev("refresh", cmd[1]))

\* A run whose log ended well and whose output was clean exited with 1.
C4_Witness ==
    /\ Ran
    /\ proc.rc = 1
    /\ log = <<"end", cmd[1]>>
    /\ Captured = {}
    /\ err.kind = "AssertionError"

\* C5: a run whose log does not end well and whose stdout or stderr holds
\* the out-of-memory marker raises the out-of-memory DismodATException,
\* whatever the exit status, also when the maximum-iterations marker is
\* there too.
C5_OutOfMemoryFatal ==
    (Ran /\ BadLog /\ oom_sentinel \in Captured) =>
        /\ pc = "none"
        /\ err = Error("DismodATException", "out of memory")
        /\ ret = NoRet

\* Exit status 0, both markers in the output, the out-of-memory one only
\* in stderr.
C5_Witness ==
    /\ Ran
    /\ BadLog
    /\ proc.rc = 0
    /\ proc.stdout = {max_iter_sentinel}
    /\ proc.stderr = {oom_sentinel}
    /\ err = Error("DismodATException", "out of memory")

\* C6: a run with exit status 0 whose log does not end well and whose
\* output holds the maximum-iterations marker and no out-of-memory marker
\* is warned about and goes on: nothing is raised, the output tables are
\* refreshed, and a fit call returns its FitResult with the output.
C6_MaxIterationsWarns ==
    (Ran /\ BadLog /\ proc.rc = 0 /\ max_iter_sentinel \in Captured
       /\ oom_sentinel \notin Captured) =>
        /\ err = NoErr
        /\ InTrace(Ev("warning", cmd[1]))
        /\ InTrace(Ev("refresh", cmd[1]))
        /\ (pc = "none" /\ cmd[1] = "fit") =>
              (ret.kind = "FitResult" /\ ret.out = proc)

\* A fit returned its FitResult after the fit command hit the limit.
C6_Witness ==
    /\ Ran
    /\ pc = "none"
    /\ cmd[1] = "fit"
    /\ BadLog
    /\ ret.kind = "FitResult"
    /\ max_iter_sentinel \in ret.out.stderr
    /\ InTrace(Ev("warning", "fit"))

\* C7: a run with exit status 0 whose log ends with "end <command>" is a
\* success: nothing is raised and no warning is made for it, whatever
\* markers the output holds.
C7_EndLineIsSuccess ==
    (Ran /\ proc.rc = 0 /\ log = <<"end", cmd[1]>>) =>
        /\ err = NoErr
        /\ ~InTrace(Ev("warning", cmd[1]))
        /\ pc = "none" => ret # NoRet

\* A fit whose output held both markers ended well.
C7_Witness ==
    /\ Ran
    /\ pc = "none"
    /\ cmd[1] = "fit"
    /\ log = <<"end", "fit">>
    /\ proc.rc = 0
    /\ proc.stdout = Sentinels
    /\ ret.kind = "FitResult"

\* C8: a run whose log does not end well, the empty log included, and
\* whose output holds neither marker raises the DismodATException that
\* names the command, whatever the exit status.
C8_GenericFailureNamesCommand ==
    (Ran /\ BadLog /\ Captured = {}) =>
        /\ pc = "none"
        /\ err = Error("DismodATException", cmd[1])
        /\ ret = NoRet

\* The sample command left an empty log and exited with 0.
C8_Witness ==
    /\ Ran
    /\ cmd[1] = "sample"
    /\ log = <<>>
    /\ proc.rc = 0
    /\ Captured = {}
    /\ err = Error("DismodATException", "sample")

\* C9: no fit call with a misaligned initial guess gets past the check of
\* _fit, and the step that raises the alignment error returns nothing,
\* writes nothing, flushes nothing and runs no command.
C9_MisalignedGuessFailsFirst ==
    /\ [](call.op = "fit" => call.guess # "misaligned")
    /\ [][err' = Error("misaligned", "initial guess") =>
            /\ call' = Idle /\ pc' = "none" /\ ret' = NoRet
            /\ events' = <<>>
            /\ UNCHANGED <<bound, dbOpen, optTable, mem, pending, file,
                           initialized>>]_vars

\* The alignment error was raised on a Session that had fitted before.
C9_Witness ==
    /\ err = Error("misaligned", "initial guess")
    /\ call = Idle
    /\ bound
    /\ mem.fit # "none"
    /\ events = <<>>

\* The steps of a fit call up to the return of its fit command.
FitSteps(scaleUser, guess) ==
    <<Ev("write", "model"), Ev("write", "option"), Ev("write", "data")>>
      \o RunOf("init")
      \o (IF scaleUser \/ guess # "None" THEN <<Ev("write", "scale")>>
          ELSE <<>>)
      \o (IF guess # "None" THEN <<Ev("write", "start")>> ELSE <<>>)
      \o RunOf("fit")

LevelFor(entry, re) ==
    CASE entry = "fit" -> IF re THEN "both" ELSE "fixed"
      [] entry = "fit_fixed" -> "fixed"
      [] entry = "fit_random" -> "random"
      [] OTHER -> ""

\* C11: the fit command of a call is `fit both` for fit on a model with
\* random effects, `fit fixed` for fit on a model without and for
\* fit_fixed, `fit random` for fit_random, whatever else the call was given.
C11_FitLevel ==
    (Len(cmd) > 0 /\ cmd[1] = "fit") =>
        cmd = <<"fit", LevelFor(args.entry, args.re)>>

\* fit_fixed on a model with random effects has its fit command running.
C11_Witness ==
    /\ pc = "running"
    /\ cmd = <<"fit", "fixed">>
    /\ args.entry = "fit_fixed"
    /\ args.re

\* The steps of a predict call up to the return of its predict command.
PredictSteps ==
    <<Ev("write", "model"), Ev("write", "option"), Ev("write", "avgint")>>
      \o RunOf("init")
      \o <<Ev("write", "truth")>>
      \o RunOf("predict")

\* C12: no predict call with an incomplete var gets past _check_vars, and
\* the step that raises writes nothing and runs nothing; when the predict
\* command of a call has gone through, the call has written model, options
\* and avgint, run init, set truth_var to var and run `predict truth_var`,
\* in this order and nothing else, and its next step returns the rows.
C12_PredictSteps ==
    /\ [](call.op = "predict" => call.guess = "complete")
    /\ [][err' = Error("incomplete", "var") =>
            /\ call' = Idle /\ pc' = "none" /\ ret' = NoRet
            /\ events' = <<>>
            /\ UNCHANGED <<bound, dbOpen, optTable, mem, pending, file,
                           initialized>>]_vars
    /\ []((pc = "ret" /\ cmd[1] = "predict") =>
            /\ SelectSeq(events, IsNotWarning) = PredictSteps
            /\ cmd = <<"predict", "truth_var">>
            /\ mem.truth = call.guess
            /\ file.truth = call.guess)
    /\ [][(pc = "ret" /\ cmd[1] = "predict") =>
            /\ ret'.kind = "predicted"
            /\ err' = NoErr
            /\ call' = Idle /\ pc' = "none"
            /\ events' = Append(events, Ev("return", "predict"))]_vars

\* A predict call has returned its rows after both commands.
C12_Witness ==
    /\ pc = "none"
    /\ ret.kind = "predicted"
    /\ file.truth = "complete"
    /\ SelectSeq(events, IsNotWarning)
         = PredictSteps \o <<Ev("return", "predict")>>

\* The steps of a simulate call up to the return of its simulate command.
SimulateSteps(scaleUser, guess) ==
    <<Ev("write", "model"), Ev("write", "option"), Ev("write", "data")>>
      \o RunOf("init")
      \o (IF scaleUser \/ guess # "None" THEN <<Ev("write", "scale")>>
          ELSE <<>>)
      \o <<Ev("write", "truth")>>
      \o RunOf("simulate")

IsSetOption(trace) == Len(trace) > 0 /\ trace[1].e \in OptKeys

\* C15: set_option puts its keyword into the Session's option mapping over
\* whatever value was there and leaves every other key as it was; no key
\* ever leaves the mapping. With a db file bound the whole mapping becomes
\* the option table at once, as a write that waits for the next flush;
\* without one nothing of the store is touched, and whenever an init runs
\* the option table on file is the whole mapping.
C15_SetOptionMerges ==
    /\ [][IsSetOption(events') =>
            LET k == events'[1].e IN
            /\ Str(options'[k]) = events'[1].c
            /\ \A j \in OptKeys \ {k} : options'[j] = options[j]
            /\ IF bound
               THEN /\ optTable' = options'
                    /\ "option" \in pending'
                    /\ Last(events') = Ev("write", "option")
               ELSE /\ UNCHANGED <<optTable, pending>>
                    /\ Len(events') = 1
            /\ UNCHANGED <<bound, dbOpen, mem, file, call, pc>>]_vars
    /\ [][\A k \in OptKeys : options[k] # 0 => options'[k] # 0]_vars
    /\ []((pc = "running" /\ cmd[1] = "init") =>
            /\ optTable = options
            /\ pending = {}
            /\ InTrace(Ev("write", "option")))

\* set_option on a bound Session has replaced the value 1 that the last
\* init found under a key by 2, the other keys being set to 1.
C15_Witness ==
    /\ bound
    /\ call.op = "idle"
    /\ \E k \in OptKeys :
          /\ events = <<Ev(k, "2"), Ev("write", "option")>>
          /\ seen[k] = 1
          /\ options[k] = 2
          /\ \A j \in OptKeys \ {k} : options[j] = 1
    /\ optTable = options

C17_MinCvInOptions ==
    (/\ Len(events) > 1
     /\ events[1].e = "set_minimum_meas_cv"
     /\ err = NoErr) => Str(options[events[1].c]) = events[2].c

\* The event starts or surrounds a run of dmdismod.
IsInvoke(ev) == ev.e \in {"flush", "close", "spawn"}

\* C18: within one public call no command is started twice; the step that
\* ends a process either hands the call its result or raises, and a raise
\* ends the public call there, with the log read as the last thing done;
\* after an error nothing of that call runs any more: the next step is a
\* new public call, which starts no command in its first step.
C18_NoRetry ==
    /\ [](\A i, j \in DOMAIN events :
            (events[i].e = "spawn" /\ events[j] = events[i]) => i = j)
    /\ [][pc = "running" =>
            \/ /\ pc' = "ret"
               /\ err' = NoErr
               /\ call' = call
            \/ /\ err' # NoErr
               /\ call' = Idle /\ pc' = "none" /\ ret' = NoRet
               /\ Last(events').e \in {"read_log", "warning"}
               /\ Last(events').c = cmd[1]]_vars
    /\ [](err # NoErr => (call = Idle /\ pc = "none" /\ ret = NoRet))
    /\ [][err # NoErr =>
            /\ call.op = "idle"
            /\ \A i \in DOMAIN events' : ~IsInvoke(events'[i])]_vars

\* simulate has failed in its second command, after an init that went
\* through: the call has ended with the error.
C18_Witness ==
    /\ err # NoErr
    /\ call = Idle
    /\ InTrace(Ev("refresh", "init"))
    /\ InTrace(Ev("spawn", "simulate"))
    /\ Last(events).c = "simulate"
    /\ ~InTrace(Ev("refresh", "simulate"))

\* The columns _amend_data_input adds when they are missing.
Added == {"name", "hold_out", "nu", "eta"}

\* C19: _amend_data_input raises on the tables whose name column has nulls
\* and on no other; what it returns has no point column, has every column
\* it adds, and is a table on which it succeeds again, returning the same
\* columns with the same contents.
C19_AmendIdempotent ==
    /\ norm.stage = "raised" => (norm.given.name = "null" /\ norm.once = NoTable)
    /\ norm.stage \in {"once", "twice"} =>
          /\ norm.given.name # "null"
          /\ norm.once.age = "absent" /\ norm.once.time = "absent"
          /\ \A c \in Added : norm.once[c] \notin {"absent", "null"}
    /\ norm.stage = "twice" => norm.twice = norm.once

\* The second application has returned for a table that came with point
\* ages, an age_upper column of its own and no name, hold_out, nu or eta:
\* the first application changed it, the second did not.
C19_Witness ==
    /\ norm.stage = "twice"
    /\ norm.given.age = "point"
    /\ norm.given.age_upper = "given"
    /\ \A c \in Added : norm.given[c] = "absent"
    /\ norm.once # norm.given
    /\ norm.once.age_lower = "point"
    /\ norm.once.age_upper = "given"
    /\ norm.once.name = "index"
    /\ norm.twice = norm.once

\* _amend_data_input has refused the data of the call.
NamesRefused == err = Error("RuntimeError", "data names")

\* C20: a fit or simulate call gets past its data only if the name column
\* has no null, and then a table that came without a name column goes on
\* with names made from the index while the caller's names are kept; a
\* name column with nulls ends the call with a RuntimeError in its first
\* step, with nothing written to the store, nothing pending for it and no
\* command started.
C20_NullNamesRefused ==
    /\ [](call.op \in {"fit", "simulate"} =>
            /\ args.given.name # "null"
            /\ args.data.name # "null"
            /\ args.given.name = "absent" => args.data.name = "index"
            /\ args.given.name = "given" => args.data.name = "given")
    /\ [][NamesRefused' =>
            /\ call.op = "idle"
            /\ call' = Idle /\ pc' = "none" /\ ret' = NoRet
            /\ events' = <<>>
            /\ UNCHANGED <<options, bound, dbOpen, optTable, mem, pending,
                           file>>]_vars

\* A call with nulls in the names has been refused on a Session whose
\* store holds the fit of an earlier call.
C20_Witness ==
    /\ NamesRefused
    /\ bound
    /\ mem.fit # "none"
    /\ file = mem
    /\ events = <<>>
    /\ call = Idle

\* The interval columns of a data table.
Intervals == {"age_lower", "age_upper", "time_lower", "time_upper"}

\* C21: what _amend_data_input returns has no age or time column; each
\* interval column is the caller's if the table had it and else the point
\* column it belongs to, if the table had that; a missing hold_out is 0, a
\* missing nu or eta is nan, not 0; every other column the table had comes
\* back as it was, and no other column is added.
C21_AmendAddsMissing ==
    norm.stage \in {"once", "twice"} =>
        /\ norm.once.age = "absent" /\ norm.once.time = "absent"
        /\ \A c \in Intervals :
              norm.once[c] = IF norm.given[c] # "absent" THEN norm.given[c]
                             ELSE norm.given[PointOf(c)]
        /\ norm.once.hold_out = IF norm.given.hold_out = "absent" THEN "0"
                                ELSE norm.given.hold_out
        /\ \A c \in {"nu", "eta"} :
              norm.once[c] = IF norm.given[c] = "absent" THEN "nan"
                             ELSE norm.given[c]
        /\ \A c \in Columns \ {"age", "time"} :
              norm.given[c] # "absent" => norm.once[c] = norm.given[c]
        /\ norm.once.mean = norm.given.mean

\* A table with point ages and times, an age_lower and a hold_out of its
\* own and no nu has been through _amend_data_input: age_lower is the
\* caller's, age_upper and the time interval are the points, nu is nan.
C21_Witness ==
    /\ norm.stage = "once"
    /\ norm.given.age = "point" /\ norm.given.time = "point"
    /\ norm.given.age_lower = "given" /\ norm.given.age_upper = "absent"
    /\ norm.given.time_lower = "absent" /\ norm.given.time_upper = "absent"
    /\ norm.given.hold_out = "given" /\ norm.given.nu = "absent"
    /\ norm.given.mean = "given"
    /\ norm.once.age_lower = "given" /\ norm.once.age_upper = "point"
    /\ norm.once.time_lower = "point"
    /\ norm.once.hold_out = "given" /\ norm.once.nu = "nan"

\* C22 as stated: a prior that was constructed has lower <= mean <= upper,
\* a standard deviation >= 0 if its kind has one and a nu >= 0 if its kind
\* has one, with the values the caller gave; a call whose arguments break
\* one of these raises.
C22_PriorInvariant ==
    LET p == pri.p
        ok == /\ Le(p.lower, p.mean) /\ Le(p.mean, p.upper)
              /\ HasStd(p.kind) => Le(0, p.std)
              /\ HasNu(p.kind) => Le(0, p.nu)
    IN  p.kind # "none" => (ok <=> p.raised = "")

\* C23 as stated: two priors of the same kind with the same parameters are
\* equal and hash alike, whatever their names.
C23_EqualWhateverName ==
    (/\ pri.eq # "none"
     /\ pri.p.kind = pri.q.kind
     /\ parameters(pri.p) = parameters(pri.q))
        => (pri.eq = "True" /\ pri.hash = "True")

\* C24 as stated: parameters() of a prior holds its density, and two
\* priors of different kinds are not equal.
C24_KindTagged ==
    /\ Made(pri.p) => "density" \in DOMAIN parameters(pri.p)
    /\ (pri.eq # "none" /\ pri.p.kind # pri.q.kind) => pri.eq = "False"

\* What the properties of the grid read: the breakpoint pairs, the slice
\* lo:hi spelled out, and the element the w-th assignment has for the
\* column declared k-th.
Pairs(g) == g.ages \X g.times
Within(x, lo, hi) == (lo # Open => x >= lo) /\ (hi # Open => x <= hi)
Element(kind, w, k) == IF kind = "scalar" THEN 10 * w ELSE 10 * w + k

\* C25: a grid that was made has one row for every pair of an age and a
\* time and no other row, and three mulstd rows, whatever assignments
\* were made to it or failed on it.
C25_GridShape ==
    atg.made =>
        /\ Len(atg.rows) = Cardinality(atg.ages) * Cardinality(atg.times)
        /\ \A at \in Pairs(atg) :
              Cardinality({i \in DOMAIN atg.rows :
                  atg.rows[i].age = at[1] /\ atg.rows[i].time = at[2]}) = 1
        /\ Len(atg.mulstd) = 3

\* A grid of two ages and one time has had an assignment that went
\* through and then one that failed.
C25_Witness ==
    /\ atg.made
    /\ atg.ages = 1..2 /\ atg.times = 1..1
    /\ atg.writes = 2
    /\ atg.err # ""
    /\ \E i \in DOMAIN atg.rows : atg.rows[i].vals[1] # UnsetCell

\* C26: `grid[a, t] = v` at a breakpoint pair makes every column of that
\* cell read as v has it and leaves every other cell reading as before;
\* what a cell reads changes only in a step that is an assignment which
\* went through.
C26_PointRoundTrip ==
    /\ [][\A a \in 1..MaxBreaks, t \in 1..MaxBreaks, kind \in WholeValues :
            (SetPoint(a, t, kind) /\ <<a, t>> \in Pairs(atg)) =>
                /\ atg'.err = ""
                /\ \A k \in DOMAIN atg.columns :
                      Get(atg', a, t, atg.columns[k])
                        = Element(kind, atg.writes + 1, k)
                /\ \A at \in Pairs(atg) \ {<<a, t>>} :
                      \A k \in DOMAIN atg.columns :
                         Get(atg', at[1], at[2], atg.columns[k])
                           = Get(atg, at[1], at[2], atg.columns[k])]_vars
    /\ [][(atg.made /\ atg'.made) =>
            \A at \in Pairs(atg), k \in DOMAIN atg.columns :
               Get(atg', at[1], at[2], atg.columns[k])
                 # Get(atg, at[1], at[2], atg.columns[k])
               => (atg'.writes = atg.writes + 1 /\ atg'.err = "")]_vars

\* The cell (1, 1) was written with a sequence by the first assignment and
\* still reads so after the second wrote the cell (2, 2) and no other.
C26_Witness ==
    /\ atg.made
    /\ atg.ages = 1..2 /\ atg.times = 1..2
    /\ atg.columns = <<"height", "weight">>
    /\ atg.writes = 2
    /\ Get(atg, 1, 1, "height") = 11 /\ Get(atg, 1, 1, "weight") = 12
    /\ Get(atg, 2, 2, "height") = 20 /\ Get(atg, 2, 2, "weight") = 20
    /\ Get(atg, 1, 2, "height") = UnsetCell
    /\ Get(atg, 2, 1, "height") = UnsetCell

\* C27: after `grid[a0:a1, t0:t1] = value` has gone through, the cells
\* whose age is within a0..a1 and whose time is within t0..t1, ends
\* included and an open end not restricting, read as the value has them,
\* and every other cell reads as before.
C27_RangeFrame ==
    [][\A sa \in Slices, st \in Slices, kind \in WholeValues :
         (SetRange(sa[1], sa[2], st[1], st[2], kind) /\ atg'.err = "") =>
            \A at \in Pairs(atg), k \in DOMAIN atg.columns :
               Get(atg', at[1], at[2], atg.columns[k])
                 = IF /\ Within(at[1], sa[1], sa[2])
                      /\ Within(at[2], st[1], st[2])
                   THEN Element(kind, atg.writes + 1, k)
                   ELSE Get(atg, at[1], at[2], atg.columns[k])]_vars

\* On a grid of two ages and two times the first assignment has written
\* the cells of time 2, and no cell of time 1.
C27_Witness ==
    /\ atg.made
    /\ atg.ages = 1..2 /\ atg.times = 1..2
    /\ atg.writes = 1 /\ atg.err = ""
    /\ \A a \in atg.ages :
          /\ Get(atg, a, 2, atg.columns[1]) = 10
          /\ Get(atg, a, 1, atg.columns[1]) = UnsetCell

\* C28: `grid[a0:a1, t0:t1] = value` with no age within a0..a1 or no time
\* within t0..t1 raises a range error and leaves all of the grid as it
\* was; with an age and a time within, it raises none.
C28_EmptyRangeRaises ==
    [][\A sa \in Slices, st \in Slices, kind \in WholeValues :
         SetRange(sa[1], sa[2], st[1], st[2], kind) =>
            IF \E at \in Pairs(atg) :
                  /\ Within(at[1], sa[1], sa[2])
                  /\ Within(at[2], st[1], st[2])
            THEN atg'.err = ""
            ELSE /\ atg'.err = "RangeError"
                 /\ atg'.rows = atg.rows
                 /\ atg'.order = atg.order
                 /\ atg'.mulstd = atg.mulstd]_vars

\* The second assignment has raised a range error on a grid that the
\* first had written to.
C28_Witness ==
    /\ atg.made
    /\ atg.writes = 2
    /\ atg.err = "RangeError"
    /\ \E i \in DOMAIN atg.rows : atg.rows[i].vals[1] = 10

\* C29: putting the columns or the rows of the store in another order
\* changes what no cell reads in any column; an assignment of a sequence
\* gives the column declared k-th its k-th element in every cell it
\* selects, whatever order the store has its columns and rows in.
C29_ByName ==
    /\ [][(ReorderColumns \/ ReorderRows) =>
            /\ atg'.columns = atg.columns
            /\ \A at \in Pairs(atg), k \in DOMAIN atg.columns :
                  Get(atg', at[1], at[2], atg.columns[k])
                    = Get(atg, at[1], at[2], atg.columns[k])]_vars
    /\ [][\A sa \in Slices, st \in Slices :
             (/\ SetRange(sa[1], sa[2], st[1], st[2], "sequence")
              /\ atg'.err = "") =>
                \A at \in Pairs(atg), k \in DOMAIN atg.columns :
                   (/\ Within(at[1], sa[1], sa[2])
                    /\ Within(at[2], st[1], st[2])) =>
                      Get(atg', at[1], at[2], atg.columns[k])
                        = 10 * (atg.writes + 1) + k]_vars

\* The store has its columns and its rows the other way round, and the
\* second assignment, a sequence, reads back by name in the cell (1, 1),
\* which the first, a scalar, had written too.
C29_Witness ==
    /\ atg.made
    /\ atg.columns = <<"height", "weight">>
    /\ atg.order = <<"weight", "height">>
    /\ atg.rows[1].age = 2
    /\ atg.writes = 2
    /\ Get(atg, 1, 1, "height") = 21 /\ Get(atg, 1, 1, "weight") = 22
    /\ Get(atg, 2, 1, "height") = 10 /\ Get(atg, 2, 1, "weight") = 10

\* A property of a result object is read, or simulation(index) is called.
ReadResult ==
    \/ \E prop \in FitProps : ReadFit(prop)
    \/ ReadCount
    \/ \E index \in 0..(MaxCount - 1) : ReadSimulation(index)

\* C30: reading a property of a FitResult or SimulateResult, or calling
\* simulation(index), leaves the Session's options and the tables of the
\* store, in memory, pending and on disk, as they were; a FitResult carries
\* the output fit's process was recorded with, and its success reads "True"
\* exactly when that stdout holds "Optimal Solution Found".
C30_ResultsReadOnly ==
    /\ [][ReadResult =>
            UNCHANGED <<options, optTable, bound, mem, pending, file>>]_vars
    /\ [][FitReturn => (ret'.kind = "FitResult" /\ ret'.out = proc)]_vars
    /\ [][KeepResult => res'.held = ret]_vars
    /\ [][\A prop \in FitProps : ReadFit(prop) => res'.held = res.held]_vars
    /\ [](res.prop = "success" =>
            (res.value = "True"
               <=> optimal_marker \in res.held.out.stdout))

\* A FitResult kept from a fit whose stdout held the marker is read as a
\* success after an option was set and a later call left another fit_var on
\* disk than in memory.
C30_Witness ==
    /\ res.held.kind = "FitResult"
    /\ res.prop = "success"
    /\ res.value = "True"
    /\ optimal_marker \in res.held.out.stdout
    /\ options # NoOptions
    /\ ret # res.held
    /\ file.fit # mem.fit

\* init has returned to setup_model_for_fit, whoever called it.
AfterInit == SetupAfterInit \/ FitAfterInit \/ SimulateAfterInit
\* The step writes the scale var.
ScaleWritten ==
    \E i \in (Len(events) + 1)..Len(events') :
       events'[i] = Ev("write", "scale")

\* C31: in the step of setup_model_for_fit that follows a successful init,
\* a scale set by the user goes to the store whatever the guess; without
\* it a guess goes to the store; without either nothing is written, the
\* store's scale stays the one init left in the db file, the model receives
\* it and is still not marked as having a user-set scale.
C31_ScalePrecedence ==
    [][AfterInit =>
         /\ call.scaleUser =>
               /\ mem'.scale = "model" /\ ScaleWritten
               /\ "scale" \in pending'
         /\ (~call.scaleUser /\ call.guess # "None") =>
               /\ mem'.scale = "guess" /\ ScaleWritten
               /\ "scale" \in pending'
         /\ (~call.scaleUser /\ call.guess = "None") =>
               /\ mem'.scale = mem.scale /\ mem.scale = file.scale
               /\ ~ScaleWritten
               /\ "scale" \notin pending'
               /\ mdl'.scale = file.scale
         /\ mdl'.user = call.scaleUser]_vars

\* fit is under way for a model with a scale set by the user and a guess:
\* the store has the model's scale, and the guess only as the start var.
C31_Witness ==
    /\ call.op = "fit" /\ cmd[1] = "fit"
    /\ call.scaleUser /\ call.guess = "aligned"
    /\ mem.scale = "model" /\ mem.start = "guess"
    /\ mdl = Mdl(TRUE, TRUE, "model")

\* The step's part of the trace has the refresh of the command's tables.
Refreshed ==
    \E i \in (Len(events) + 1)..Len(events') :
       events'[i] = Ev("refresh", cmd[1])
\* How the run that has just ended was classified and whether it passed:
\* no fatal classification and exit status zero.
Passed ==
    /\ check_dismod_command(cmd[1], log', proc'.stdout, proc'.stderr)
         \in {"ok", "warn"}
    /\ proc'.rc = 0

\* C32: when the process of a command ends, the command's output tables
\* are refreshed exactly if the log's classification passed and the exit
\* status was zero: then each of them is in memory what the db file holds
\* and the other tables are as before; otherwise the call raises, nothing
\* is refreshed and every table in memory is as it was before the command.
C32_RefreshOnlyOnSuccess ==
    [][ProcessExit =>
         /\ Refreshed <=> Passed
         /\ Passed =>
               /\ err' = err /\ pc' = "ret"
               /\ \A t \in COMMAND_IO[cmd[1]] : mem'[t] = file'[t]
               /\ \A t \in Tables \ COMMAND_IO[cmd[1]] : mem'[t] = mem[t]
         /\ ~Passed =>
               /\ err' # NoErr /\ pc' = "none"
               /\ mem' = mem]_vars

\* A fit whose process wrote fit_var and logged its end, but exited with a
\* status other than zero: the call has raised and the fit_var in memory is
\* not the one in the db file.
C32_Witness ==
    /\ pc = "none" /\ cmd = <<"fit", "fixed">>
    /\ err = Error("AssertionError", "return code")
    /\ proc.rc = 1 /\ log = <<"end", "fit">>
    /\ file.fit = "new" /\ mem.fit # "new"
    /\ mem.start = "engine"

\* The commands Session sends that have more than one token.
LongCommands ==
    {<<"fit", "fixed">>, <<"fit", "random">>, <<"fit", "both">>}
      \cup {<<"sample", "simulate", Str(n)>> : n \in 1..MaxCount}
      \cup {<<"simulate", Str(n)>> : n \in 1..MaxCount}
\* The output of the run that has just ended holds neither marker.
NoMarkers == proc'.stdout \cup proc'.stderr = {}

\* C33: when the process of a command ends with exit status 0 and no
\* marker in its output, the run passes if the log's last message is, or
\* holds, "end" followed by the command's first token, whatever the other
\* tokens of the command are; with another last message, or an empty log,
\* the call fails naming that first token. With an empty log a marker in the
\* output decides as it does for a log that ends otherwise.
C33_EndLineByFirstToken ==
    [][(ProcessExit /\ proc'.rc = 0) =>
         /\ log' \in {<<"end", cmd[1]>>, <<"at", "end", cmd[1]>>} =>
               (err' = NoErr /\ pc' = "ret")
         /\ (log' \in {<<>>, <<"begin", cmd[1]>>} /\ NoMarkers) =>
               err' = Error("DismodATException", cmd[1])
         /\ (log' = <<>> /\ oom_sentinel \in proc'.stdout \cup proc'.stderr)
               => err' = Error("DismodATException", "out of memory")
         /\ (log' = <<>> /\ proc'.stdout \cup proc'.stderr
                              = {max_iter_sentinel}) =>
               (err' = NoErr /\ pc' = "ret")]_vars

\* `fit both` has returned a FitResult on a last message that holds
\* "end fit" among other words.
C33_Witness ==
    /\ pc = "none"
    /\ cmd = <<"fit", "both">>
    /\ cmd \in LongCommands
    /\ log = <<"at", "end", "fit">>
    /\ proc.rc = 0
    /\ ret.kind = "FitResult"

\* The attributes of the column are as they were.
ColumnKept ==
    /\ cov'.made = cov.made /\ cov'.name = cov.name
    /\ cov'.reference = cov.reference
    /\ cov'.max_difference = cov.max_difference

\* C34 as stated: a CovariateColumn that exists has a name that is a
\* non-empty string and a max_difference that is unset or above zero; a
\* name that is no string or empty, and a max_difference of zero or less,
\* make the setter raise and leave the three attributes as they were.
C34_ColumnInvariant ==
    /\ [](cov.made =>
            /\ cov.name.isStr /\ cov.name.text # ""
            /\ cov.max_difference = Unset \/ Lt(0, cov.max_difference))
    /\ [][\A nom \in NameArgs :
            (SetName(nom) /\ (~nom.isStr \/ nom.text = "")) =>
               (cov'.raised # "" /\ ColumnKept)]_vars
    /\ [][\A difference \in Floats :
            (SetMaxDifference(difference) /\ Le(difference, 0)) =>
               (cov'.raised # "" /\ ColumnKept)]_vars
====
